---- MODULE Spec2Model ----
(***************************************************************************)
(* Model of the lokascript Python package                                  *)
(* (packages/lokascript-python/lokascript) and of the service client       *)
(* (clients/python-client/hyperfixi_client).                               *)
(*                                                                         *)
(* Spec          the usage Aggregator of aggregator.py: its file table     *)
(*               (_file_usage) and memoised snapshot (_cached_usage), one  *)
(*               action per public method.  The variables call, ret and    *)
(*               pre record the last call, what it returned and the state  *)
(*               it was made in, so that properties of one call are state  *)
(*               predicates.                                               *)
(* HeapSpec      the same aggregator with dicts as objects.                *)
(* ThreadsSpec   get_usage in several threads, statement by statement.     *)
(* RegionSpec, UsageSpec, LanguageSpec, ExtractSpec, ContentSpec, ScanSpec *)
(*               the functions and the Scanner of scanner.py, applied to   *)
(*               inputs drawn from small sets.                             *)
(* RegistrySpec  the BehaviorRegistry of behaviors.py.                     *)
(* ClientSpec    HyperfixiClient._request and compile of client.py.        *)
(***************************************************************************)
EXTENDS Integers, Sequences, FiniteSets, TLC

VARIABLES
    file_usage,      \* Aggregator._file_usage: dict path -> FileUsage
    cached_usage,    \* Aggregator._cached_usage: AggregatedUsage or None
    next_id,         \* number of AggregatedUsage objects constructed so far
    call,            \* the last method call and its arguments
    ret,             \* what the last call returned
    pre,             \* the aggregator and client state when the last call began
    last_snapshot,   \* identity of the object the last get_usage() call returned
    mutated,         \* a mutating call happened since the last get_usage() call
    fn,              \* the last application of a function of scanner.py
    scanner,         \* Scanner.include_extensions and Scanner.exclude_patterns
    files,           \* the file system: canonical path -> what reading it gives
    behaviors,       \* BehaviorRegistry._behaviors: dict name -> Behavior
    calls,           \* the register, unregister and clear calls made so far
    client,          \* HyperfixiClient: its retries attribute
    request,         \* the running HyperfixiClient._request call
    compile,         \* the compile / batch_compile call that awaits it
    heap,            \* the aggregator as objects: its dicts and what refers to them
    returned,        \* the snapshots get_usage returned, each as it was then
    reader,          \* per thread, the get_usage call it is in and its locals
    writer           \* the mutation method in progress, if any

vars == <<file_usage, cached_usage, next_id, call, ret, pre, last_snapshot, mutated,
          fn, scanner, files, behaviors, calls, client, request, compile,
          heap, returned, reader, writer>>

\* Number of AggregatedUsage objects a run may construct.
MaxSnapshots == 3

\* Python's None.  A record, so that it compares with the records it stands in for.
None == [id |-> 0]

\* The file paths used as keys of the table.
Paths == {"file1.html", "file2.html"}

\* dataclass FileUsage(commands, blocks, positional, detected_languages)
FileUsage(commands, blocks, positional, detected_languages) ==
    [commands |-> commands, blocks |-> blocks, positional |-> positional,
     detected_languages |-> detected_languages]

\* FileUsage.__bool__: detected_languages is not consulted.
FileUsageBool(usage) ==
    usage.commands # {} \/ usage.blocks # {} \/ usage.positional

\* The usages passed to add() and held by scan results: the default (empty)
\* FileUsage, one with only a detected language, two that differ only in
\* detected_languages, one with several commands, one with a block and the
\* positional flag.
InputUsages ==
    { FileUsage({}, {}, FALSE, {}),
      FileUsage({}, {}, FALSE, {"ja"}),
      FileUsage({"toggle"}, {}, FALSE, {}),
      FileUsage({"toggle"}, {}, FALSE, {"es"}),
      FileUsage({"remove", "add"}, {}, FALSE, {}),
      FileUsage({}, {"if"}, TRUE, {}) }

\* The usages a project scan hands to load_from_scan(): scan_directory keeps
\* truthy usages only.
ScanUsages == { usage \in InputUsages : FileUsageBool(usage) }

\* The dicts a project scan can hand to load_from_scan().
ScanResults == UNION { [P -> ScanUsages] : P \in SUBSET Paths }

\* The dict without any key.
EmptyDict == [p \in {} |-> None]

\* An argument that was passed (None stands for one that was not).
Given(value) == [value |-> value]

\* include_extensions or {...}: an empty set is falsy, as None is.
SetOr(argument, default) ==
    IF argument = None THEN default
    ELSE IF argument.value = {} THEN default
    ELSE argument.value

\* exclude_patterns or [...]: an empty list is falsy, as None is.
ListOr(argument, default) ==
    IF argument = None THEN default
    ELSE IF Len(argument.value) = 0 THEN default
    ELSE argument.value

\* The extensions Scanner.__init__ falls back to.
DefaultIncludeExtensions == {".html", ".htm", ".txt", ".xml", ".jinja", ".jinja2"}

\* The patterns Scanner.__init__ falls back to.
DefaultExcludePatterns ==
    << "__pycache__", ".git", "node_modules", ".venv", "venv", "site-packages" >>

\* Scanner.__init__
Scanner_init(include_extensions, exclude_patterns) ==
    [include_extensions |-> SetOr(include_extensions, DefaultIncludeExtensions),
     exclude_patterns |-> ListOr(exclude_patterns, DefaultExcludePatterns)]

\* Scanner() and no files: where the aggregator and the pure functions run.
ScannerFresh ==
    /\ scanner = Scanner_init(None, None)
    /\ files = EmptyDict

\* The scanner and the file system are not touched.
ScannerIdle == UNCHANGED <<scanner, files>>

\* The class attribute BehaviorRegistry._behaviors as the class body leaves it.
RegistryFresh ==
    /\ behaviors = EmptyDict
    /\ calls = << >>

\* The behaviour registry is not touched.
RegistryIdle == UNCHANGED <<behaviors, calls>>

\* HyperfixiClient() with no call made.
ClientFresh ==
    /\ client = [retries |-> 3]
    /\ request = [pc |-> "idle"]
    /\ compile = [pc |-> "idle"]

\* The service client is not touched.
ClientIdle == UNCHANGED <<client, request, compile>>

\* Aggregator() as objects: one empty dict, no snapshot.
HeapFresh ==
    /\ heap = [dicts |-> << EmptyDict >>, file_usage |-> 1, cached_usage |-> None]
    /\ returned = {}

\* The objects are not touched.
HeapIdle == UNCHANGED <<heap, returned>>

\* The threads that call get_usage.
Threads == {1, 2}

\* The locals of get_usage before line 99 runs.
Resting ==
    [pc |-> "idle",
     acc |-> [commands |-> {}, blocks |-> {}, positional |-> FALSE,
              detected_languages |-> {}],
     live |-> TRUE, dict |-> EmptyDict, size |-> 0, visited |-> {},
     copy |-> EmptyDict]

\* No call is in progress in any thread.
ThreadsFresh ==
    /\ reader = [t \in Threads |-> Resting]
    /\ writer = [pc |-> "idle"]

\* No thread takes a step.
ThreadsIdle == UNCHANGED <<reader, writer>>

\* dict.get(key): the value, or None.
DictGet(d, key) == IF key \in DOMAIN d THEN d[key] ELSE None

\* d[key] = value
DictSet(d, key, value) ==
    [k \in DOMAIN d \cup {key} |-> IF k = key THEN value ELSE d[k]]

\* del d[key]
DictDel(d, key) == [k \in DOMAIN d \ {key} |-> d[k]]

\* The loop of get_usage over self._file_usage.values(): acc is the tuple of
\* the four local accumulators.
RECURSIVE Accumulate(_, _, _)
Accumulate(d, keys, acc) ==
    IF keys = {} THEN acc
    ELSE LET k == CHOOSE k \in keys : TRUE
             usage == d[k]
         IN  Accumulate(d, keys \ {k},
                 [commands |-> acc.commands \cup usage.commands,
                  blocks |-> acc.blocks \cup usage.blocks,
                  positional |-> IF usage.positional THEN TRUE ELSE acc.positional,
                  detected_languages |->
                      acc.detected_languages \cup usage.detected_languages])

\* Recompute with the detected languages left out of the aggregation.
RecomputeWithoutLanguages(d, id) ==
    LET acc == Accumulate(d, DOMAIN d,
                   [commands |-> {}, blocks |-> {}, positional |-> FALSE,
                    detected_languages |-> {}])
    IN  [id |-> id,
         commands |-> acc.commands,
         blocks |-> acc.blocks,
         positional |-> acc.positional,
         file_usage |-> d,
         detected_languages |-> {}]

\* AggregatedUsage(...) as get_usage constructs it from the table d; id is the
\* identity of the new object.
Recompute(d, id) ==
    LET acc == Accumulate(d, DOMAIN d,
                   [commands |-> {}, blocks |-> {}, positional |-> FALSE,
                    detected_languages |-> {}])
    IN  [id |-> id,
         commands |-> acc.commands,
         blocks |-> acc.blocks,
         positional |-> acc.positional,
         file_usage |-> d,
         detected_languages |-> acc.detected_languages]

\* The content of a snapshot, without its identity.
Content(snapshot) ==
    [commands |-> snapshot.commands, blocks |-> snapshot.blocks,
     positional |-> snapshot.positional, file_usage |-> snapshot.file_usage,
     detected_languages |-> snapshot.detected_languages]

\* str ordering (by code point) on the strings that occur in the usages.
Vocabulary == <<"add", "es", "if", "ja", "remove", "toggle">>

Rank(s) == CHOOSE i \in 1..Len(Vocabulary) : Vocabulary[i] = s

\* The elements of S from the greatest to the least.
RECURSIVE SortedDescending(_)
SortedDescending(S) ==
    IF S = {} THEN <<>>
    ELSE LET greatest == CHOOSE x \in S : \A y \in S : Rank(y) <= Rank(x)
         IN  <<greatest>> \o SortedDescending(S \ {greatest})

\* sorted(S) for a set of str.
RECURSIVE Sorted(_)
Sorted(S) ==
    IF S = {} THEN <<>>
    ELSE LET least == CHOOSE x \in S : \A y \in S : Rank(x) <= Rank(y)
         IN  <<least>> \o Sorted(S \ {least})

\* The record of a call.
Call(name, file_path, usage, scanned_files) ==
    [name |-> name, file_path |-> file_path, usage |-> usage,
     scanned_files |-> scanned_files]

\* Bookkeeping common to all calls: the call, its result, the state it began in.
Observe(c, r) ==
    /\ call' = c
    /\ ret' = r
    /\ pre' = [file_usage |-> file_usage, cached_usage |-> cached_usage,
               last_snapshot |-> last_snapshot, mutated |-> mutated]
    /\ UNCHANGED fn
    /\ ScannerIdle
    /\ ClientIdle
    /\ HeapIdle
    /\ ThreadsIdle
    /\ RegistryIdle

\* A call that mutates the table (in the sense of the cache contract).
Mutating == mutated' = TRUE /\ UNCHANGED last_snapshot

\* A call that neither mutates nor is a get_usage() call of the client.
Reading == UNCHANGED <<last_snapshot, mutated>>

\* get_usage can run: the cache is present, or an object can still be constructed.
CanGetUsage == cached_usage # None \/ next_id < MaxSnapshots

\* What get_usage returns in the current state.
GetUsageValue ==
    IF cached_usage # None THEN cached_usage
    ELSE Recompute(file_usage, next_id + 1)

\* What get_usage does to the aggregator.
GetUsageEffect ==
    /\ cached_usage' = GetUsageValue
    /\ next_id' = IF cached_usage # None THEN next_id ELSE next_id + 1
    /\ UNCHANGED file_usage

Init ==
    /\ file_usage = EmptyDict
    /\ cached_usage = None
    /\ next_id = 0
    /\ call = Call("__init__", "", None, EmptyDict)
    /\ ret = None
    /\ pre = [file_usage |-> EmptyDict, cached_usage |-> None,
              last_snapshot |-> 0, mutated |-> FALSE]
    /\ last_snapshot = 0
    /\ mutated = FALSE
    /\ fn = [name |-> "none"]
    /\ ScannerFresh
    /\ ClientFresh
    /\ HeapFresh
    /\ ThreadsFresh
    /\ RegistryFresh

\* Aggregator.add
add(file_path, usage) ==
    LET existing == DictGet(file_usage, file_path)
    IN  IF /\ existing # None
           /\ FileUsageBool(existing)
           /\ existing.commands = usage.commands
           /\ existing.blocks = usage.blocks
           /\ existing.positional = usage.positional
        THEN /\ UNCHANGED <<file_usage, cached_usage, next_id>>
             /\ Observe(Call("add", file_path, usage, EmptyDict), FALSE)
             /\ Reading
        ELSE /\ file_usage' = DictSet(file_usage, file_path, usage)
             /\ cached_usage' = None
             /\ UNCHANGED next_id
             /\ Observe(Call("add", file_path, usage, EmptyDict), TRUE)
             /\ Mutating

\* remove that deletes the entry and leaves the cached snapshot in place.
remove_keeps_cache(file_path) ==
    IF file_path \in DOMAIN file_usage
    THEN /\ file_usage' = DictDel(file_usage, file_path)
         /\ UNCHANGED <<cached_usage, next_id>>
         /\ Observe(Call("remove", file_path, None, EmptyDict), TRUE)
         /\ Mutating
    ELSE /\ UNCHANGED <<file_usage, cached_usage, next_id>>
         /\ Observe(Call("remove", file_path, None, EmptyDict), FALSE)
         /\ Reading

\* remove written with pop(file_path, None): no membership test.
remove_pop(file_path) ==
    /\ file_usage' = DictDel(file_usage, file_path)
    /\ cached_usage' = None
    /\ UNCHANGED next_id
    /\ Observe(Call("remove", file_path, None, EmptyDict), TRUE)
    /\ Mutating

\* Aggregator.remove
remove(file_path) ==
    IF file_path \in DOMAIN file_usage
    THEN /\ file_usage' = DictDel(file_usage, file_path)
         /\ cached_usage' = None
         /\ UNCHANGED next_id
         /\ Observe(Call("remove", file_path, None, EmptyDict), TRUE)
         /\ Mutating
    ELSE /\ UNCHANGED <<file_usage, cached_usage, next_id>>
         /\ Observe(Call("remove", file_path, None, EmptyDict), FALSE)
         /\ Reading

\* Aggregator.get_usage, called by the client
get_usage ==
    /\ CanGetUsage
    /\ GetUsageEffect
    /\ Observe(Call("get_usage", "", None, EmptyDict), GetUsageValue)
    /\ last_snapshot' = GetUsageValue.id
    /\ mutated' = FALSE

\* load_from_scan written with self._file_usage.update(scanned_files).
load_from_scan_update(scanned_files) ==
    /\ file_usage' = [k \in DOMAIN file_usage \cup DOMAIN scanned_files |->
                        IF k \in DOMAIN scanned_files THEN scanned_files[k]
                        ELSE file_usage[k]]
    /\ cached_usage' = None
    /\ UNCHANGED next_id
    /\ Observe(Call("load_from_scan", "", None, scanned_files), None)
    /\ Mutating

\* Aggregator.load_from_scan
load_from_scan(scanned_files) ==
    /\ file_usage' = scanned_files
    /\ cached_usage' = None
    /\ UNCHANGED next_id
    /\ Observe(Call("load_from_scan", "", None, scanned_files), None)
    /\ Mutating

\* has_usage that also counts the detected languages.
has_usage_with_languages ==
    /\ CanGetUsage
    /\ GetUsageEffect
    /\ LET usage == GetUsageValue
       IN  Observe(Call("has_usage", "", None, EmptyDict),
                   \/ usage.commands # {} \/ usage.blocks # {} \/ usage.positional
                   \/ usage.detected_languages # {})
    /\ Reading

\* Aggregator.has_usage
has_usage ==
    /\ CanGetUsage
    /\ GetUsageEffect
    /\ LET usage == GetUsageValue
       IN  Observe(Call("has_usage", "", None, EmptyDict),
                   usage.commands # {} \/ usage.blocks # {} \/ usage.positional)
    /\ Reading

\* Aggregator.get_summary
get_summary ==
    /\ CanGetUsage
    /\ GetUsageEffect
    /\ LET usage == GetUsageValue
       IN  Observe(Call("get_summary", "", None, EmptyDict),
                   [commands |-> Sorted(usage.commands),
                    blocks |-> Sorted(usage.blocks),
                    positional |-> usage.positional,
                    file_count |-> Cardinality(DOMAIN file_usage),
                    detected_languages |-> Sorted(usage.detected_languages)])
    /\ Reading

\* clear that empties the table and leaves the cached snapshot in place.
clear_keeps_cache ==
    /\ file_usage' = EmptyDict
    /\ UNCHANGED <<cached_usage, next_id>>
    /\ Observe(Call("clear", "", None, EmptyDict), None)
    /\ Mutating

\* Aggregator.clear
clear ==
    /\ file_usage' = EmptyDict
    /\ cached_usage' = None
    /\ UNCHANGED next_id
    /\ Observe(Call("clear", "", None, EmptyDict), None)
    /\ Mutating

Next ==
    \/ \E file_path \in Paths, usage \in InputUsages : add(file_path, usage)
    \/ \E file_path \in Paths : remove(file_path)
    \/ get_usage
    \/ \E scanned_files \in ScanResults : load_from_scan(scanned_files)
    \/ has_usage
    \/ get_summary
    \/ clear

Spec == Init /\ [][Next]_vars

(***************************************************************************)
(* Regional bundle selection (scanner.py: REGIONS, get_optimal_region)     *)
(***************************************************************************)

\* Largest language set passed to get_optimal_region.
MaxLanguages == 2

\* Largest set of further languages joined to it for the second call.
MaxMore == 1

\* The aggregator is not touched by the functions of scanner.py.
AggregatorIdle ==
    UNCHANGED <<file_usage, cached_usage, next_id, call, ret, pre,
                last_snapshot, mutated>>

\* SUPPORTED_LANGUAGES
SUPPORTED_LANGUAGES ==
    << "en", "es", "pt", "fr", "de", "it", "vi",
       "pl", "ru", "uk",
       "ja", "zh", "ko",
       "ar",
       "hi", "bn",
       "th",
       "tr",
       "id", "sw", "qu", "tl" >>

\* REGIONS with vi in the western region as well.
REGIONS_vi_in_western ==
    ( "western" :> << "en", "es", "pt", "fr", "de", "it", "vi" >> ) @@
    ( "east-asian" :> << "ja", "zh", "ko" >> ) @@
    ( "southeast-asian" :> << "id", "vi", "th", "tl" >> ) @@
    ( "south-asian" :> << "hi", "bn" >> ) @@
    ( "slavic" :> << "pl", "ru", "uk" >> ) @@
    ( "priority" :> << "en", "es", "pt", "fr", "de", "it", "ja", "zh", "ko",
                       "ar", "tr", "id", "vi" >> ) @@
    ( "all" :> SUPPORTED_LANGUAGES )

\* REGIONS
REGIONS ==
    ( "western" :> << "en", "es", "pt", "fr", "de", "it" >> ) @@
    ( "east-asian" :> << "ja", "zh", "ko" >> ) @@
    ( "southeast-asian" :> << "id", "vi", "th", "tl" >> ) @@
    ( "south-asian" :> << "hi", "bn" >> ) @@
    ( "slavic" :> << "pl", "ru", "uk" >> ) @@
    ( "priority" :> << "en", "es", "pt", "fr", "de", "it", "ja", "zh", "ko",
                       "ar", "tr", "id", "vi" >> ) @@
    ( "all" :> SUPPORTED_LANGUAGES )

\* x in list
InList(x, list) == \E i \in DOMAIN list : list[i] = x

\* all(lang in REGIONS[region] for lang in lang_list)
AllIn(languages, region) == \A lang \in languages : InList(lang, REGIONS[region])

\* None as the value of a function that otherwise returns a str.
NoRegion == "None"

\* get_optimal_region whose last resort is the priority bundle.
get_optimal_region_fallback_priority(languages) ==
    IF languages = {} THEN NoRegion
    ELSE IF AllIn(languages, "east-asian") THEN "east-asian"
    ELSE IF AllIn(languages, "south-asian") THEN "south-asian"
    ELSE IF AllIn(languages, "slavic") THEN "slavic"
    ELSE IF AllIn(languages, "southeast-asian") THEN "southeast-asian"
    ELSE IF AllIn(languages, "western") THEN "western"
    ELSE "priority"

\* get_optimal_region that tests the priority bundle before the western one.
get_optimal_region_priority_first(languages) ==
    IF languages = {} THEN NoRegion
    ELSE IF AllIn(languages, "east-asian") THEN "east-asian"
    ELSE IF AllIn(languages, "south-asian") THEN "south-asian"
    ELSE IF AllIn(languages, "slavic") THEN "slavic"
    ELSE IF AllIn(languages, "southeast-asian") THEN "southeast-asian"
    ELSE IF AllIn(languages, "priority") THEN "priority"
    ELSE IF AllIn(languages, "western") THEN "western"
    ELSE "all"

\* get_optimal_region without the priority step.
get_optimal_region_without_priority(languages) ==
    IF languages = {} THEN NoRegion
    ELSE IF AllIn(languages, "east-asian") THEN "east-asian"
    ELSE IF AllIn(languages, "south-asian") THEN "south-asian"
    ELSE IF AllIn(languages, "slavic") THEN "slavic"
    ELSE IF AllIn(languages, "southeast-asian") THEN "southeast-asian"
    ELSE IF AllIn(languages, "western") THEN "western"
    ELSE "all"

\* get_optimal_region without the test for an empty set.
get_optimal_region_without_empty_test(languages) ==
    IF AllIn(languages, "east-asian") THEN "east-asian"
    ELSE IF AllIn(languages, "south-asian") THEN "south-asian"
    ELSE IF AllIn(languages, "slavic") THEN "slavic"
    ELSE IF AllIn(languages, "southeast-asian") THEN "southeast-asian"
    ELSE IF AllIn(languages, "western") THEN "western"
    ELSE IF AllIn(languages, "priority") THEN "priority"
    ELSE "all"

\* get_optimal_region
get_optimal_region(languages) ==
    IF languages = {} THEN NoRegion
    ELSE IF AllIn(languages, "east-asian") THEN "east-asian"
    ELSE IF AllIn(languages, "south-asian") THEN "south-asian"
    ELSE IF AllIn(languages, "slavic") THEN "slavic"
    ELSE IF AllIn(languages, "southeast-asian") THEN "southeast-asian"
    ELSE IF AllIn(languages, "western") THEN "western"
    ELSE IF AllIn(languages, "priority") THEN "priority"
    ELSE "all"

\* The sets of at most n supported language codes.
RECURSIVE LanguageSets(_)
LanguageSets(n) ==
    IF n = 0 THEN { {} }
    ELSE LET smaller == LanguageSets(n - 1)
         IN  smaller \cup
             { S \cup { SUPPORTED_LANGUAGES[i] } :
                   S \in smaller, i \in DOMAIN SUPPORTED_LANGUAGES }

\* A fresh aggregator, which the functions of scanner.py do not touch.
AggregatorFresh ==
    /\ file_usage = EmptyDict
    /\ cached_usage = None
    /\ next_id = 0
    /\ call = Call("__init__", "", None, EmptyDict)
    /\ ret = None
    /\ pre = [file_usage |-> EmptyDict, cached_usage |-> None,
              last_snapshot |-> 0, mutated |-> FALSE]
    /\ last_snapshot = 0
    /\ mutated = FALSE

\* The detected languages of a project, and those a later scan adds.
InitRegion ==
    /\ AggregatorFresh
    /\ ScannerFresh
    /\ ClientFresh
    /\ HeapFresh
    /\ ThreadsFresh
    /\ RegistryFresh
    /\ \E languages \in LanguageSets(MaxLanguages), more \in LanguageSets(MaxMore) :
           fn = [name |-> "input", languages |-> languages, more |-> more]

\* A client selects the bundle for languages and again for languages | more.
select_region ==
    /\ fn.name = "input"
    /\ fn' = [name |-> "get_optimal_region",
              languages |-> fn.languages,
              more |-> fn.more,
              region |-> get_optimal_region(fn.languages),
              region_more |-> get_optimal_region(fn.languages \cup fn.more)]
    /\ AggregatorIdle
    /\ ScannerIdle
    /\ ClientIdle
    /\ HeapIdle
    /\ ThreadsIdle
    /\ RegistryIdle

NextRegion == select_region

RegionSpec == InitRegion /\ [][NextRegion]_vars

(***************************************************************************)
(* FileUsage.merge and FileUsage.__bool__ (scanner.py)                     *)
(***************************************************************************)

\* The FileUsage values merged and tested: every combination of two commands,
\* one block, the positional flag and one detected language.
UsageValues ==
    { FileUsage(c, b, p, l) :
          c \in SUBSET {"toggle", "add"}, b \in SUBSET {"if"}, p \in BOOLEAN,
          l \in SUBSET {"ja"} }

\* merge that assigns the other usage's positional flag.
merge_assigns_positional(self, other) ==
    [self |-> [commands |-> self.commands \cup other.commands,
               blocks |-> self.blocks \cup other.blocks,
               positional |-> other.positional,
               detected_languages |->
                   self.detected_languages \cup other.detected_languages],
     other |-> other]

\* FileUsage.merge: self.merge(other) mutates self in place; the result gives
\* both objects after the call.
merge(self, other) ==
    [self |-> [commands |-> self.commands \cup other.commands,
               blocks |-> self.blocks \cup other.blocks,
               positional |-> IF other.positional THEN TRUE ELSE self.positional,
               detected_languages |->
                   self.detected_languages \cup other.detected_languages],
     other |-> other]

\* Three usages a, b, c held by a client.
InitUsage ==
    /\ AggregatorFresh
    /\ ScannerFresh
    /\ ClientFresh
    /\ HeapFresh
    /\ ThreadsFresh
    /\ RegistryFresh
    /\ \E a \in UsageValues, b \in UsageValues, c \in UsageValues :
           fn = [name |-> "input", a |-> a, b |-> b, c |-> c]

\* The client merges copies of a, b and c in both orders and both groupings.
apply_merge ==
    /\ fn.name = "input"
    /\ LET a_b == merge(fn.a, fn.b)
           b_c == merge(fn.b, fn.c)
       IN  fn' = [name |-> "merge", a |-> fn.a, b |-> fn.b, c |-> fn.c,
                  a_b |-> a_b.self,
                  b_after |-> a_b.other,
                  b_a |-> merge(fn.b, fn.a).self,
                  ab_c |-> merge(a_b.self, fn.c).self,
                  a_bc |-> merge(fn.a, b_c.self).self]
    /\ AggregatorIdle
    /\ ScannerIdle
    /\ ClientIdle
    /\ HeapIdle
    /\ ThreadsIdle
    /\ RegistryIdle

\* The client tests the truth value of a.
apply_bool ==
    /\ fn.name = "input"
    /\ fn' = [name |-> "__bool__", usage |-> fn.a, result |-> FileUsageBool(fn.a)]
    /\ AggregatorIdle
    /\ ScannerIdle
    /\ ClientIdle
    /\ HeapIdle
    /\ ThreadsIdle
    /\ RegistryIdle

NextUsage == apply_merge \/ apply_bool

UsageSpec == InitUsage /\ [][NextUsage]_vars

(***************************************************************************)
(* Language detection and script analysis (scanner.py: detect_languages,   *)
(* Scanner.analyze_script, Scanner.extract_hyperscript, scan_content).     *)
(*                                                                         *)
(* A script is a sequence of tokens; the string it stands for is their     *)
(* concatenation.  The token " " is white space, every other token is a    *)
(* run of word characters, so two adjacent word tokens form one word.      *)
(* No keyword of the tables is part of another token.  A keyword that is   *)
(* not ASCII is written as the code points of its characters.              *)
(***************************************************************************)

\* Longest script analysed, in tokens.
MaxScriptLen == 3

\* LANGUAGE_KEYWORDS with an entry for the base language.
LANGUAGE_KEYWORDS_with_en ==
    ( "en" :> { "toggle" } ) @@
    ( "ja" :> { "u30c8.u30b0.u30eb" } ) @@
    ( "ko" :> { "ud1a0.uae00" } ) @@
    ( "zh" :> { "u5207.u6362" } ) @@
    ( "ar" :> { "u0628.u062f.u0651.u0644" } ) @@
    ( "es" :> { "alternar", "yo" } ) @@
    ( "pt" :> { "adicionar" } ) @@
    ( "fr" :> { "basculer" } ) @@
    ( "de" :> { "umschalten" } ) @@
    ( "tr" :> { "u0064.u0065.u011f.u0069.u015f.u0074.u0069.u0072" } ) @@
    ( "id" :> { "alih" } ) @@
    ( "sw" :> { "badilisha" } ) @@
    ( "qu" :> { "tikray" } ) @@
    ( "it" :> { "commutare" } ) @@
    ( "vi" :> { "u0063.u0068.u0075.u0079.u1ec3.u006e.u0020.u0111.u1ed5.u0069" } ) @@
    ( "pl" :> { "u0070.u0072.u007a.u0065.u0142.u0105.u0063.u007a" } ) @@
    ( "ru" :> { "u043f.u0435.u0440.u0435.u043a.u043b.u044e.u0447.u0438.u0442.u044c" } ) @@
    ( "uk" :> { "u043f.u0435.u0440.u0435.u043c.u043a.u043d.u0443.u0442.u0438" } ) @@
    ( "hi" :> { "u091f.u0949.u0917.u0932" } ) @@
    ( "bn" :> { "u099f.u0997.u09b2" } ) @@
    ( "th" :> { "u0e2a.u0e25.u0e31.u0e1a" } ) @@
    ( "tl" :> { "palitan" } )

\* LANGUAGE_KEYWORDS: every language of the table, with the first keyword the
\* source lists for it; Spanish also with its two-letter keyword.
LANGUAGE_KEYWORDS ==
    ( "ja" :> { "u30c8.u30b0.u30eb" } ) @@
    ( "ko" :> { "ud1a0.uae00" } ) @@
    ( "zh" :> { "u5207.u6362" } ) @@
    ( "ar" :> { "u0628.u062f.u0651.u0644" } ) @@
    ( "es" :> { "alternar", "yo" } ) @@
    ( "pt" :> { "adicionar" } ) @@
    ( "fr" :> { "basculer" } ) @@
    ( "de" :> { "umschalten" } ) @@
    ( "tr" :> { "u0064.u0065.u011f.u0069.u015f.u0074.u0069.u0072" } ) @@
    ( "id" :> { "alih" } ) @@
    ( "sw" :> { "badilisha" } ) @@
    ( "qu" :> { "tikray" } ) @@
    ( "it" :> { "commutare" } ) @@
    ( "vi" :> { "u0063.u0068.u0075.u0079.u1ec3.u006e.u0020.u0111.u1ed5.u0069" } ) @@
    ( "pl" :> { "u0070.u0072.u007a.u0065.u0142.u0105.u0063.u007a" } ) @@
    ( "ru" :> { "u043f.u0435.u0440.u0435.u043a.u043b.u044e.u0447.u0438.u0442.u044c" } ) @@
    ( "uk" :> { "u043f.u0435.u0440.u0435.u043c.u043a.u043d.u0443.u0442.u0438" } ) @@
    ( "hi" :> { "u091f.u0949.u0917.u0932" } ) @@
    ( "bn" :> { "u099f.u0997.u09b2" } ) @@
    ( "th" :> { "u0e2a.u0e25.u0e31.u0e1a" } ) @@
    ( "tl" :> { "palitan" } )

\* len(word) for the keywords above and the English command.
KeywordLength ==
    ( "toggle" :> 6 ) @@
    ( "u30c8.u30b0.u30eb" :> 3 ) @@
    ( "ud1a0.uae00" :> 2 ) @@
    ( "u5207.u6362" :> 2 ) @@
    ( "u0628.u062f.u0651.u0644" :> 4 ) @@
    ( "alternar" :> 8 ) @@
    ( "yo" :> 2 ) @@
    ( "adicionar" :> 9 ) @@
    ( "basculer" :> 8 ) @@
    ( "umschalten" :> 10 ) @@
    ( "u0064.u0065.u011f.u0069.u015f.u0074.u0069.u0072" :> 8 ) @@
    ( "alih" :> 4 ) @@
    ( "badilisha" :> 9 ) @@
    ( "tikray" :> 6 ) @@
    ( "commutare" :> 9 ) @@
    ( "u0063.u0068.u0075.u0079.u1ec3.u006e.u0020.u0111.u1ed5.u0069" :> 10 ) @@
    ( "u0070.u0072.u007a.u0065.u0142.u0105.u0063.u007a" :> 8 ) @@
    ( "u043f.u0435.u0440.u0435.u043a.u043b.u044e.u0447.u0438.u0442.u044c" :> 11 ) @@
    ( "u043f.u0435.u0440.u0435.u043c.u043a.u043d.u0443.u0442.u0438" :> 10 ) @@
    ( "u091f.u0949.u0917.u0932" :> 4 ) @@
    ( "u099f.u0997.u09b2" :> 3 ) @@
    ( "u0e2a.u0e25.u0e31.u0e1a" :> 4 ) @@
    ( "palitan" :> 7 )

\* non_latin_langs of detect_languages
non_latin_langs == {"ja", "ko", "zh", "ar", "ru", "uk", "hi", "bn", "th"}

\* The tokens scripts are built from: an English command, a Spanish keyword
\* in lower and in upper case, the two-letter Spanish keyword, the Japanese
\* keyword and the (two-character) Korean keyword of the table, white space,
\* some other word, a command in mixed case, the alias block keyword in
\* capitals, and the two words of the for-each block.
ScriptTokens ==
    { "toggle", "alternar", "ALTERNAR", "yo", "u30c8.u30b0.u30eb", "ud1a0.uae00",
      " ", "x", "removeClass", "UNLESS", "for", "each" }

\* str.lower() on a token
Lower(token) ==
    CASE token = "ALTERNAR" -> "alternar"
      [] token = "Hide" -> "hide"
      [] token = "removeClass" -> "removeclass"
      [] token = "UNLESS" -> "unless"
      [] OTHER -> token

\* script.lower()
ScriptLower(script) == [i \in DOMAIN script |-> Lower(script[i])]

\* A token of word characters (\w+).
IsWord(token) == token # " "

\* Position i of the script is a whole word: \b on both sides.
WholeWord(script, i) ==
    /\ IsWord(script[i])
    /\ i = 1 \/ ~IsWord(script[i - 1])
    /\ i = Len(script) \/ ~IsWord(script[i + 1])

\* keyword in script
Contains(script, keyword) == \E i \in DOMAIN script : script[i] = keyword

\* re.compile(rf"\b{keyword}\b").search(script)
SearchWord(script, keyword) ==
    \E i \in DOMAIN script : script[i] = keyword /\ WholeWord(script, i)

\* re.compile(rf"\b{keyword}\b", re.IGNORECASE).search(script)
SearchWordIgnoreCase(script, keyword) == SearchWord(ScriptLower(script), keyword)

\* detect_languages
detect_languages(script) ==
    { lang \in DOMAIN LANGUAGE_KEYWORDS :
        IF lang \in non_latin_langs
        THEN \E keyword \in LANGUAGE_KEYWORDS[lang] : Contains(script, keyword)
        ELSE \E keyword \in LANGUAGE_KEYWORDS[lang] :
                 /\ KeywordLength[keyword] > 2
                 /\ SearchWord(ScriptLower(script), Lower(keyword)) }

\* The alternatives of COMMAND_PATTERN, as written.
COMMAND_PATTERN ==
    { "toggle", "add", "remove", "removeClass", "show", "hide", "set", "get",
      "put", "append", "take", "increment", "decrement", "log", "send",
      "trigger", "wait", "transition", "go", "call", "focus", "blur", "return" }

\* VALID_COMMANDS
VALID_COMMANDS ==
    { "toggle", "add", "remove", "removeclass", "show", "hide", "set", "get",
      "put", "append", "take", "increment", "decrement", "log", "send",
      "trigger", "wait", "transition", "go", "call", "focus", "blur", "return" }

\* VALID_BLOCKS
VALID_BLOCKS == { "if", "repeat", "for", "while", "fetch", "async" }

\* Tokens i+1 .. j-1 are white space, and there is at least one (\s+).
Spaces(script, i, j) ==
    /\ i + 1 < j
    /\ \A k \in (i + 1)..(j - 1) : script[k] = " "

\* BLOCK_PATTERNS["repeat"]: repeat, white space, a run of word characters,
\* white space, time or times.
SearchRepeat(script) ==
    LET lower == ScriptLower(script)
    IN  \E i \in DOMAIN script, a \in DOMAIN script, b \in DOMAIN script,
           j \in DOMAIN script :
            /\ lower[i] = "repeat"
            /\ i = 1 \/ ~IsWord(script[i - 1])
            /\ Spaces(script, i, a)
            /\ a <= b
            /\ \A k \in a..b : IsWord(script[k])
            /\ Spaces(script, b, j)
            /\ lower[j] \in {"time", "times"}
            /\ j = Len(script) \/ ~IsWord(script[j + 1])

\* BLOCK_PATTERNS["for"]: for, white space, each or every.
SearchFor(script) ==
    LET lower == ScriptLower(script)
    IN  \E i \in DOMAIN script, j \in DOMAIN script :
            /\ lower[i] = "for"
            /\ i = 1 \/ ~IsWord(script[i - 1])
            /\ Spaces(script, i, j)
            /\ lower[j] \in {"each", "every"}
            /\ j = Len(script) \/ ~IsWord(script[j + 1])

\* BLOCK_PATTERNS[block_name].search(script)
SearchBlock(block_name, script) ==
    CASE block_name = "repeat" -> SearchRepeat(script)
      [] block_name = "for" -> SearchFor(script)
      [] OTHER -> SearchWordIgnoreCase(script, block_name)

\* The keys of BLOCK_PATTERNS.
BLOCK_NAMES == {"if", "unless", "repeat", "for", "while", "fetch", "async"}

\* The alternatives of POSITIONAL_PATTERN.
POSITIONAL_WORDS == {"first", "last", "next", "previous", "closest", "parent"}

\* analyze_script recording every block under the name of its pattern.
analyze_script_without_alias(script) ==
    FileUsage(
        { Lower(script[i]) : i \in { k \in DOMAIN script :
              /\ WholeWord(script, k)
              /\ \E word \in COMMAND_PATTERN : Lower(script[k]) = Lower(word) } },
        { b \in BLOCK_NAMES : SearchBlock(b, script) },
        \E word \in POSITIONAL_WORDS : SearchWordIgnoreCase(script, word),
        detect_languages(script))

\* Scanner.analyze_script
analyze_script(script) ==
    FileUsage(
        { Lower(script[i]) : i \in { k \in DOMAIN script :
              /\ WholeWord(script, k)
              /\ \E word \in COMMAND_PATTERN : Lower(script[k]) = Lower(word) } },
        { IF block_name = "unless" THEN "if" ELSE block_name :
              block_name \in { b \in BLOCK_NAMES : SearchBlock(b, script) } },
        \E word \in POSITIONAL_WORDS : SearchWordIgnoreCase(script, word),
        detect_languages(script))

\* The scripts of at most n tokens.
RECURSIVE Scripts(_)
Scripts(n) ==
    IF n = 0 THEN { <<>> }
    ELSE LET shorter == Scripts(n - 1)
         IN  shorter \cup { Append(s, t) : s \in shorter, t \in ScriptTokens }

\* A script handed to detect_languages and analyze_script.
InitLanguage ==
    /\ AggregatorFresh
    /\ ScannerFresh
    /\ ClientFresh
    /\ HeapFresh
    /\ ThreadsFresh
    /\ RegistryFresh
    /\ \E script \in Scripts(MaxScriptLen) : fn = [name |-> "input", script |-> script]

\* detect_languages(script)
apply_detect_languages ==
    /\ fn.name = "input"
    /\ fn' = [name |-> "detect_languages", script |-> fn.script,
              detected |-> detect_languages(fn.script)]
    /\ AggregatorIdle
    /\ ScannerIdle
    /\ ClientIdle
    /\ HeapIdle
    /\ ThreadsIdle
    /\ RegistryIdle

\* Scanner.analyze_script(script)
apply_analyze_script ==
    /\ fn.name = "input"
    /\ fn' = [name |-> "analyze_script", script |-> fn.script,
              usage |-> analyze_script(fn.script)]
    /\ AggregatorIdle
    /\ ScannerIdle
    /\ ClientIdle
    /\ HeapIdle
    /\ ThreadsIdle
    /\ RegistryIdle

NextLanguage == apply_detect_languages \/ apply_analyze_script

LanguageSpec == InitLanguage /\ [][NextLanguage]_vars

(***************************************************************************)
(* Directory scanning (scanner.py: Scanner)                                *)
(*                                                                         *)
(* A path is the sequence of its components and str(path) their join, so  *)
(* a path stands for its string.  The file system maps the canonical path *)
(* of each regular file to what read_text gives for it: a text or an      *)
(* error.  A text is the sequence of the embedded scripts it holds, in the *)
(* order they occur, each with the syntax it is embedded in (the one      *)
(* pattern of HYPERSCRIPT_PATTERNS that matches it) and its value.        *)
(***************************************************************************)

\* Longest text handed to extract_hyperscript on its own.
MaxItems == 2

\* An embedded script: the syntax around it and its value.
Item(form, script) == [form |-> form, script |-> script]

\* Longest list of roots passed to scan_directories.
MaxRoots == 2

\* The regular files that may exist, by canonical path.
FilePaths ==
    { <<"templates", "page.html">>,
      <<"templates", "sub", "PAGE.HTML">>,
      <<"templates", ".venv", "notes.txt">> }

\* What read_text gives for a file: no attribute, an English command, a
\* script with a Japanese keyword only, a blank attribute and a command with a
\* positional word, two scripts the second with a block and an upper-case
\* Spanish keyword; or an exception.
FileContents ==
    { [text |-> << >>],
      [text |-> << Item("attr_double", <<"toggle">>) >>],
      [text |-> << Item("attr_double", <<"u30c8.u30b0.u30eb", " ", "x">>) >>],
      [text |-> << Item("script_tag", <<" ">>),
                   Item("data_hs_single", <<"Hide", " ", "first">>) >>],
      [text |-> << Item("hs_attr_double", <<"toggle">>),
                   Item("attr_backtick", <<" ", "if", " ", "ALTERNAR">>) >>],
      [error |-> "UnicodeDecodeError"] }

\* The file systems: some of the files, each with some content; the file of
\* the virtual environment, when there, with the English command.
FileSystems ==
    { fs \in UNION { [P -> FileContents] : P \in SUBSET FilePaths } :
        <<"templates", ".venv", "notes.txt">> \in DOMAIN fs =>
            fs[<<"templates", ".venv", "notes.txt">>] =
                [text |-> << Item("attr_double", <<"toggle">>) >>] }

\* The include_extensions arguments of Scanner(...).
IncludeArguments == { None, Given({}), Given({".html"}) }

\* The exclude_patterns arguments of Scanner(...).
ExcludeArguments == { None, Given(<< >>), Given(<<"page">>) }

\* The directories scanned: a directory, one nested in it, a second spelling
\* of the first, and one that does not exist.
Roots ==
    { <<"templates">>, <<"templates", "sub">>,
      <<"templates", "..", "templates">>, <<"missing">> }

\* The lists of at most n roots.
RECURSIVE RootLists(_)
RootLists(n) ==
    IF n = 0 THEN { << >> }
    ELSE LET shorter == RootLists(n - 1)
         IN  shorter \cup { Append(l, r) : l \in shorter, r \in Roots }

\* The paths should_scan is asked about.
ScanPaths ==
    FilePaths \cup
    { <<"templates">>, <<"page.html">>, <<"sub", "PAGE.HTML">>,
      <<"templates", "..", "templates", "page.html">> }

\* The file system's lookup of a path: each ".." leaves the directory before it.
RECURSIVE Resolve(_)
Resolve(path) ==
    IF \E i \in 2..Len(path) : path[i] = ".."
    THEN LET i == CHOOSE k \in 2..Len(path) :
                      path[k] = ".." /\ \A j \in 2..(k - 1) : path[j] # ".."
         IN  Resolve(SubSeq(path, 1, i - 2) \o SubSeq(path, i + 1, Len(path)))
    ELSE path

\* p names q or a directory above q.
IsPrefix(p, q) == Len(p) <= Len(q) /\ SubSeq(q, 1, Len(p)) = p

\* path.is_file()
is_file(path) == Resolve(path) \in DOMAIN files

\* directory.exists(); a directory exists when a file lies below it.
exists(directory) == \E f \in DOMAIN files : IsPrefix(Resolve(directory), f)

\* directory.rglob("*"): every directory and file below directory, each named
\* through directory as it was spelled.
rglob(directory) ==
    LET canonical == Resolve(directory)
        below == { f \in DOMAIN files :
                     IsPrefix(canonical, f) /\ Len(f) > Len(canonical) }
    IN  UNION { { directory \o SubSeq(f, Len(canonical) + 1, n) :
                    n \in (Len(canonical) + 1)..Len(f) } : f \in below }

\* path.suffix, by the name of the last component.
suffix(path) ==
    LET name == path[Len(path)]
    IN  CASE name = "page.html" -> ".html"
          [] name = "PAGE.HTML" -> ".HTML"
          [] name = "notes.txt" -> ".txt"
          [] OTHER -> ""

\* str.lower() on a suffix
SuffixLower(s) == IF s = ".HTML" THEN ".html" ELSE s

\* pattern in component, for the exclude patterns and the components above.
OccursInComponent(pattern, component) ==
    CASE component = ".venv" -> pattern \in {".venv", "venv"}
      [] component = "page.html" -> pattern = "page"
      [] OTHER -> FALSE

\* pattern in path_str
OccursIn(pattern, path) ==
    \E i \in DOMAIN path : OccursInComponent(pattern, path[i])

\* Scanner.should_scan
should_scan(path) ==
    IF SuffixLower(suffix(path)) \notin scanner.include_extensions THEN FALSE
    ELSE ~\E i \in DOMAIN scanner.exclude_patterns :
             OccursIn(scanner.exclude_patterns[i], path)

\* str.strip()
RECURSIVE strip(_)
strip(script) ==
    IF Len(script) = 0 THEN script
    ELSE IF Head(script) = " " THEN strip(Tail(script))
    ELSE IF script[Len(script)] = " "
         THEN strip(SubSeq(script, 1, Len(script) - 1))
    ELSE script

\* A script that is not the empty string.
NotBlank(script) == Len(script) > 0

\* HYPERSCRIPT_PATTERNS with the standard attributes after the data-hs variant.
HYPERSCRIPT_PATTERNS_data_hs_first ==
    << "data_hs_double", "data_hs_single",
       "attr_double", "attr_single", "attr_backtick",
       "jsx_template", "jsx_quoted",
       "django_block",
       "hs_attr_double", "hs_attr_single", "hs_script_double", "hs_script_single",
       "script_tag" >>

\* HYPERSCRIPT_PATTERNS, each pattern named by the syntax it matches.
HYPERSCRIPT_PATTERNS ==
    << "attr_double", "attr_single", "attr_backtick",
       "jsx_template", "jsx_quoted",
       "data_hs_double", "data_hs_single",
       "django_block",
       "hs_attr_double", "hs_attr_single", "hs_script_double", "hs_script_single",
       "script_tag" >>

\* pattern.finditer(content): the positions of the matches, in order of occurrence.
finditer(pattern, content) ==
    SelectSeq([i \in DOMAIN content |-> i], LAMBDA i : content[i].form = pattern)

\* The matches of the first n patterns, pattern by pattern: for each the
\* pattern and the position in the content.
RECURSIVE Matches(_, _)
Matches(content, n) ==
    IF n = 0 THEN << >>
    ELSE LET pattern == HYPERSCRIPT_PATTERNS[n]
             found == finditer(pattern, content)
         IN  Matches(content, n - 1) \o
             [k \in DOMAIN found |-> [pattern |-> pattern, position |-> found[k]]]

\* The matches whose stripped script is not empty.
KeptMatches(content) ==
    SelectSeq(Matches(content, Len(HYPERSCRIPT_PATTERNS)),
              LAMBDA m : NotBlank(strip(content[m.position].script)))

\* Scanner.extract_hyperscript: the stripped scripts that are not empty.
extract_hyperscript(content) ==
    LET kept == KeptMatches(content)
    IN  [k \in DOMAIN kept |-> strip(content[kept[k].position].script)]

\* The loop of scan_content: usage.merge(self.analyze_script(script)) per script.
RECURSIVE MergeEach(_, _)
MergeEach(usage, scripts) ==
    IF Len(scripts) = 0 THEN usage
    ELSE MergeEach(merge(usage, analyze_script(Head(scripts))).self, Tail(scripts))

\* scan_content analysing the first script only.
scan_content_first_script(content) ==
    LET scripts == extract_hyperscript(content)
    IN  MergeEach(FileUsage({}, {}, FALSE, {}),
                  IF Len(scripts) = 0 THEN scripts ELSE << Head(scripts) >>)

\* Scanner.scan_content
scan_content(content) ==
    MergeEach(FileUsage({}, {}, FALSE, {}), extract_hyperscript(content))

\* path.read_text(encoding="utf-8"): the text, or the exception raised.
read_text(path) ==
    IF is_file(path) THEN files[Resolve(path)]
    ELSE [error |-> "FileNotFoundError"]

\* scan_file without its except clause: the exception reaches the caller.
scan_file_without_except(path) ==
    LET read == read_text(path)
    IN  IF "text" \in DOMAIN read THEN scan_content(read.text)
        ELSE [commands |-> {}, blocks |-> {}, positional |-> FALSE,
              detected_languages |-> {}, raised |-> read.error]

\* Scanner.scan_file: an exception of read_text gives the empty FileUsage.
scan_file(path) ==
    LET read == read_text(path)
    IN  IF "text" \in DOMAIN read THEN scan_content(read.text)
        ELSE FileUsage({}, {}, FALSE, {})

\* Scanner.scan_directory
scan_directory(directory) ==
    IF ~exists(directory) THEN EmptyDict
    ELSE LET kept == { path \in rglob(directory) :
                         /\ is_file(path)
                         /\ should_scan(path)
                         /\ FileUsageBool(scan_file(path)) }
         IN  [path \in kept |-> scan_file(path)]

\* dict.update(other)
DictUpdate(d, other) ==
    [k \in DOMAIN d \cup DOMAIN other |->
        IF k \in DOMAIN other THEN other[k] ELSE d[k]]

\* The loop of scan_directories: results.update(self.scan_directory(directory)).
RECURSIVE ScanEach(_, _)
ScanEach(results, directories) ==
    IF Len(directories) = 0 THEN results
    ELSE ScanEach(DictUpdate(results, scan_directory(Head(directories))),
                  Tail(directories))

\* Scanner.scan_directories
scan_directories(directories) == ScanEach(EmptyDict, directories)

\* The embedded scripts of the texts handed to extract_hyperscript.
Items ==
    { Item(HYPERSCRIPT_PATTERNS[k], script) :
        k \in DOMAIN HYPERSCRIPT_PATTERNS, script \in { <<"toggle">>, <<" ">> } }

\* The texts of at most n embedded scripts.
RECURSIVE Texts(_)
Texts(n) ==
    IF n = 0 THEN { << >> }
    ELSE LET shorter == Texts(n - 1)
         IN  shorter \cup { Append(t, item) : t \in shorter, item \in Items }

\* A text handed to extract_hyperscript.
InitExtract ==
    /\ AggregatorFresh
    /\ ScannerFresh
    /\ ClientFresh
    /\ HeapFresh
    /\ ThreadsFresh
    /\ RegistryFresh
    /\ \E content \in Texts(MaxItems) : fn = [name |-> "input", content |-> content]

\* scanner.extract_hyperscript(content)
apply_extract_hyperscript ==
    /\ fn.name = "input"
    /\ fn' = [name |-> "extract_hyperscript",
              content |-> fn.content,
              scripts |-> extract_hyperscript(fn.content),
              matches |-> KeptMatches(fn.content)]
    /\ AggregatorIdle
    /\ ScannerIdle
    /\ ClientIdle
    /\ HeapIdle
    /\ ThreadsIdle
    /\ RegistryIdle

NextExtract == apply_extract_hyperscript

ExtractSpec == InitExtract /\ [][NextExtract]_vars

\* The embedded scripts of the texts handed to scan_content: under three of
\* the syntaxes, a command, a blank, a Japanese keyword, a command in capitals
\* with a positional word, a block with a Spanish keyword, another command.
ContentItems ==
    { Item(form, script) :
        form \in { "attr_double", "jsx_quoted", "script_tag" },
        script \in { <<"toggle">>, <<" ">>, <<"u30c8.u30b0.u30eb", " ", "x">>,
                     <<"Hide", " ", "first">>, <<" ", "if", " ", "ALTERNAR">>,
                     <<"add">> } }

\* The texts of at most n such embedded scripts.
RECURSIVE ContentTexts(_)
ContentTexts(n) ==
    IF n = 0 THEN { << >> }
    ELSE LET shorter == ContentTexts(n - 1)
         IN  shorter \cup { Append(t, item) : t \in shorter, item \in ContentItems }

\* A text handed to scan_content.
InitContent ==
    /\ AggregatorFresh
    /\ ScannerFresh
    /\ ClientFresh
    /\ HeapFresh
    /\ ThreadsFresh
    /\ RegistryFresh
    /\ \E content \in ContentTexts(MaxItems) :
           fn = [name |-> "input", content |-> content]

\* scanner.scan_content(content)
apply_scan_content ==
    /\ fn.name = "input"
    /\ fn' = [name |-> "scan_content",
              content |-> fn.content,
              usage |-> scan_content(fn.content)]
    /\ AggregatorIdle
    /\ ScannerIdle
    /\ ClientIdle
    /\ HeapIdle
    /\ ThreadsIdle
    /\ RegistryIdle

NextContent == apply_scan_content

ContentSpec == InitContent /\ [][NextContent]_vars

\* Scanner(include_extensions=..., exclude_patterns=...) over some file system.
InitScan ==
    /\ AggregatorFresh
    /\ RegistryFresh
    /\ ClientFresh
    /\ HeapFresh
    /\ ThreadsFresh
    /\ \E include_extensions \in IncludeArguments,
          exclude_patterns \in ExcludeArguments :
           /\ scanner = Scanner_init(include_extensions, exclude_patterns)
           /\ fn = [name |-> "Scanner",
                    include_extensions |-> include_extensions,
                    exclude_patterns |-> exclude_patterns]
    /\ files \in FileSystems

\* scanner.should_scan(path)
apply_should_scan ==
    /\ fn.name = "Scanner"
    /\ \E path \in ScanPaths :
           fn' = [name |-> "should_scan",
                  include_extensions |-> fn.include_extensions,
                  exclude_patterns |-> fn.exclude_patterns,
                  path |-> path,
                  result |-> should_scan(path)]
    /\ AggregatorIdle
    /\ ScannerIdle
    /\ ClientIdle
    /\ HeapIdle
    /\ ThreadsIdle
    /\ RegistryIdle

\* scanner.scan_file(path)
apply_scan_file ==
    /\ fn.name = "Scanner"
    /\ \E path \in ScanPaths :
           fn' = [name |-> "scan_file",
                  include_extensions |-> fn.include_extensions,
                  exclude_patterns |-> fn.exclude_patterns,
                  path |-> path,
                  usage |-> scan_file(path)]
    /\ AggregatorIdle
    /\ ScannerIdle
    /\ ClientIdle
    /\ HeapIdle
    /\ ThreadsIdle
    /\ RegistryIdle

\* scanner.scan_directory(directory)
apply_scan_directory ==
    /\ fn.name = "Scanner"
    /\ \E directory \in Roots :
           fn' = [name |-> "scan_directory",
                  include_extensions |-> fn.include_extensions,
                  exclude_patterns |-> fn.exclude_patterns,
                  directory |-> directory,
                  results |-> scan_directory(directory)]
    /\ AggregatorIdle
    /\ ScannerIdle
    /\ ClientIdle
    /\ HeapIdle
    /\ ThreadsIdle
    /\ RegistryIdle

\* scanner.scan_directories(directories)
apply_scan_directories ==
    /\ fn.name = "Scanner"
    /\ \E directories \in RootLists(MaxRoots) :
           fn' = [name |-> "scan_directories",
                  include_extensions |-> fn.include_extensions,
                  exclude_patterns |-> fn.exclude_patterns,
                  directories |-> directories,
                  results |-> scan_directories(directories)]
    /\ AggregatorIdle
    /\ ScannerIdle
    /\ ClientIdle
    /\ HeapIdle
    /\ ThreadsIdle
    /\ RegistryIdle

NextScan ==
    \/ apply_should_scan
    \/ apply_scan_file
    \/ apply_scan_directory
    \/ apply_scan_directories

ScanSpec == InitScan /\ [][NextScan]_vars

(***************************************************************************)
(* Behaviour registry (behaviors.py: BehaviorRegistry)                     *)
(*                                                                         *)
(* The registry is the class attribute _behaviors.  The variable calls    *)
(* lists the register, unregister and clear calls in the order made; fn   *)
(* holds the last call with what it returned or raised.                   *)
(***************************************************************************)

\* Number of register, unregister and clear calls in a run.
MaxCalls == 4

\* The behaviour names used.
BehaviorNames == { "Removable", "Toggleable" }

\* The (name, script, description) arguments of register().
RegisterArguments ==
    { <<"Removable", "on click remove me", "">>,
      <<"Removable", "on click hide me", "Click to hide">>,
      <<"Toggleable", "on click toggle .active", "">> }

\* dataclass Behavior(name, script, description)
Behavior(name, script, description) ==
    [name |-> name, script |-> script, description |-> description]

\* register() keeping a behaviour that is already registered under the name.
register_keeps_existing(name, script, description) ==
    /\ Len(calls) < MaxCalls
    /\ behaviors' = IF name \in DOMAIN behaviors THEN behaviors
                    ELSE DictSet(behaviors, name, Behavior(name, script, description))
    /\ calls' = Append(calls, [op |-> "register", name |-> name, script |-> script,
                               description |-> description])
    /\ fn' = [name |-> "register", behavior |-> name, raised |-> FALSE]
    /\ AggregatorIdle
    /\ ScannerIdle
    /\ ClientIdle
    /\ HeapIdle
    /\ ThreadsIdle

\* BehaviorRegistry.register
register(name, script, description) ==
    /\ Len(calls) < MaxCalls
    /\ behaviors' = DictSet(behaviors, name, Behavior(name, script, description))
    /\ calls' = Append(calls, [op |-> "register", name |-> name, script |-> script,
                               description |-> description])
    /\ fn' = [name |-> "register", behavior |-> name, raised |-> FALSE]
    /\ AggregatorIdle
    /\ ScannerIdle
    /\ ClientIdle
    /\ HeapIdle
    /\ ThreadsIdle

\* BehaviorRegistry.unregister: pop(name, None)
unregister(name) ==
    /\ Len(calls) < MaxCalls
    /\ behaviors' = DictDel(behaviors, name)
    /\ calls' = Append(calls, [op |-> "unregister", name |-> name])
    /\ fn' = [name |-> "unregister", behavior |-> name, before |-> behaviors,
              raised |-> FALSE]
    /\ AggregatorIdle
    /\ ScannerIdle
    /\ ClientIdle
    /\ HeapIdle
    /\ ThreadsIdle

\* BehaviorRegistry.clear
registry_clear ==
    /\ Len(calls) < MaxCalls
    /\ behaviors' = EmptyDict
    /\ calls' = Append(calls, [op |-> "clear"])
    /\ fn' = [name |-> "clear", raised |-> FALSE]
    /\ AggregatorIdle
    /\ ScannerIdle
    /\ ClientIdle
    /\ HeapIdle
    /\ ThreadsIdle

\* BehaviorRegistry.get
registry_get(name) ==
    /\ fn' = [name |-> "get", behavior |-> name, result |-> DictGet(behaviors, name),
              raised |-> FALSE]
    /\ UNCHANGED <<behaviors, calls>>
    /\ AggregatorIdle
    /\ ScannerIdle
    /\ ClientIdle
    /\ HeapIdle
    /\ ThreadsIdle

\* The registry after import, before any call.
InitRegistry ==
    /\ AggregatorFresh
    /\ ScannerFresh
    /\ ClientFresh
    /\ HeapFresh
    /\ ThreadsFresh
    /\ RegistryFresh
    /\ fn = [name |-> "none"]

NextRegistry ==
    \/ \E arguments \in RegisterArguments :
           register(arguments[1], arguments[2], arguments[3])
    \/ \E name \in BehaviorNames : unregister(name)
    \/ registry_clear
    \/ \E name \in BehaviorNames : registry_get(name)

RegistrySpec == InitRegistry /\ [][NextRegistry]_vars

(***************************************************************************)
(* Service client (clients/python-client/hyperfixi_client/client.py)       *)
(*                                                                         *)
(* One compile or batch_compile call and the _request call it awaits.  The *)
(* _request coroutine is followed step by step: a request is sent, the     *)
(* service answers or the transport fails, the coroutine returns, raises   *)
(* or sleeps and goes round the loop again.                                *)
(***************************************************************************)

\* Largest retries a client is constructed with.
MaxRetries == 2

\* What client.request gives: a response (status_code and the errors list of
\* its body), or an exception of httpx (status 0).
Response(status_code, errors) ==
    [status_code |-> status_code, errors |-> errors, exception |-> ""]

\* An exception of httpx raised by client.request.
Failure(exception) == [status_code |-> 0, errors |-> << >>, exception |-> exception]

\* The answers of the service and the failures of the transport.
Replies ==
    { Response(200, << >>), Response(200, << "parse error" >>),
      Response(400, << >>), Response(401, << >>), Response(404, << >>),
      Response(429, << >>), Response(500, << >>), Response(503, << >>),
      Failure("TimeoutException"), Failure("RequestError") }

\* The base classes of the exception classes of exceptions.py.
BaseClass ==
    ( "HyperfixiError" :> "Exception" ) @@
    ( "CompilationError" :> "HyperfixiError" ) @@
    ( "ValidationError" :> "HyperfixiError" ) @@
    ( "NetworkError" :> "HyperfixiError" ) @@
    ( "TimeoutError" :> "HyperfixiError" ) @@
    ( "ServiceUnavailableError" :> "NetworkError" ) @@
    ( "AuthenticationError" :> "NetworkError" ) @@
    ( "RateLimitError" :> "NetworkError" )

\* isinstance(exception, class), which an except clause tests.
RECURSIVE IsInstance(_, _)
IsInstance(exception, class) ==
    \/ exception = class
    \/ exception \in DOMAIN BaseClass /\ IsInstance(BaseClass[exception], class)

\* A call that returned value.
Returned(value) ==
    [kind |-> "returned", value |-> value, exception |-> "", errors |-> << >>]

\* A call that raised an exception of the class, carrying the errors list.
Raised(exception, errors) ==
    [kind |-> "raised", value |-> None, exception |-> exception, errors |-> errors]

\* The coroutine ends with the outcome.
RequestDone(reply, outcome) ==
    request' = [request EXCEPT !.pc = "done", !.replies = Append(@, reply),
                               !.outcome = outcome]

\* RetryOr retrying on the last attempt as well.
RetryOrOnceMore(reply, outcome) ==
    IF request.attempt <= client.retries
    THEN request' = [request EXCEPT !.pc = "sleep", !.replies = Append(@, reply)]
    ELSE RequestDone(reply, outcome)

\* The coroutine sleeps before the next attempt when one is left, and ends
\* with the outcome otherwise.
RetryOr(reply, outcome) ==
    IF request.attempt < client.retries
    THEN request' = [request EXCEPT !.pc = "sleep", !.replies = Append(@, reply)]
    ELSE RequestDone(reply, outcome)

\* HyperfixiClient(retries=...) with compile or batch_compile called, which
\* has called _request.
InitClient ==
    /\ AggregatorFresh
    /\ ScannerFresh
    /\ RegistryFresh
    /\ HeapFresh
    /\ ThreadsFresh
    /\ fn = [name |-> "none"]
    /\ \E retries \in 0..MaxRetries : client = [retries |-> retries]
    /\ \E method \in { "compile", "batch_compile" } :
           compile = [pc |-> "await", method |-> method, outcome |-> None]
    /\ request = [pc |-> "send", attempt |-> 0, sent |-> 0, replies |-> << >>,
                  outcome |-> None]

\* Only the service client moves.
ClientOnly ==
    /\ AggregatorIdle
    /\ UNCHANGED <<fn, scanner, files, behaviors, calls>>
    /\ HeapIdle
    /\ ThreadsIdle

\* _request: await client.request(...) is entered, the request goes out.
request_send ==
    /\ request.pc = "send"
    /\ request' = [request EXCEPT !.pc = "await", !.sent = @ + 1]
    /\ UNCHANGED <<client, compile>>
    /\ ClientOnly

\* _request: client.request(...) gives a response or raises, and the chain
\* of status tests or the except clauses run.
request_receive ==
    /\ request.pc = "await"
    /\ \E reply \in Replies :
           IF reply.exception = "TimeoutException"
           THEN RetryOr(reply, Raised("TimeoutError", << >>))
           ELSE IF reply.exception = "RequestError"
           THEN RetryOr(reply, Raised("NetworkError", << >>))
           ELSE IF reply.status_code = 200
           THEN RequestDone(reply, Returned(reply))
           ELSE IF reply.status_code = 400
           THEN RequestDone(reply, Raised("NetworkError", << >>))
           ELSE IF reply.status_code = 401
           THEN RequestDone(reply, Raised("AuthenticationError", << >>))
           ELSE IF reply.status_code = 429
           THEN RequestDone(reply, Raised("RateLimitError", << >>))
           ELSE IF reply.status_code >= 500
           THEN RetryOr(reply, Raised("ServiceUnavailableError", << >>))
           ELSE RequestDone(reply, Raised("NetworkError", << >>))
    /\ UNCHANGED <<client, compile>>
    /\ ClientOnly

\* _request: asyncio.sleep(2 ** attempt) is over and continue takes the next
\* attempt of range(retries + 1); when the range is used up the coroutine
\* falls off its end and returns None.
request_continue ==
    /\ request.pc = "sleep"
    /\ request' = IF request.attempt + 1 < client.retries + 1
                  THEN [request EXCEPT !.pc = "send", !.attempt = @ + 1]
                  ELSE [request EXCEPT !.pc = "done", !.outcome = Returned(None)]
    /\ UNCHANGED <<client, compile>>
    /\ ClientOnly

\* compile / batch_compile after await self._request(...): the try block and
\* its except clauses.  CompileResponse(**None) is a TypeError.
compile_finish ==
    /\ compile.pc = "await"
    /\ request.pc = "done"
    /\ LET result == request.outcome
           raised ==
               IF result.kind = "raised" THEN result
               ELSE IF result.value = None THEN Raised("TypeError", << >>)
               ELSE IF Len(result.value.errors) > 0
               THEN Raised("CompilationError", result.value.errors)
               ELSE None
       IN  compile' =
               [compile EXCEPT
                   !.pc = "done",
                   !.outcome =
                       IF raised = None THEN Returned(result.value)
                       ELSE IF IsInstance(raised.exception, "NetworkError")
                       THEN raised
                       ELSE Raised("HyperfixiError", << >>)]
    /\ UNCHANGED <<client, request>>
    /\ ClientOnly

NextClient ==
    \/ request_send
    \/ request_receive
    \/ request_continue
    \/ compile_finish

ClientSpec == InitClient /\ [][NextClient]_vars

\* The event loop runs a coroutine that is ready, and client.request ends.
FairClientSpec == ClientSpec /\ WF_vars(NextClient)

(***************************************************************************)
(* The aggregator as objects (aggregator.py)                               *)
(*                                                                         *)
(* Here dicts are objects with an identity: heap.dicts[i] is the content   *)
(* of dict i, heap.file_usage the dict self._file_usage refers to, and a   *)
(* snapshot's file_usage the dict it refers to.  The sets of a snapshot    *)
(* are built by get_usage and referred to by nothing else, and FileUsage   *)
(* objects are written by no method, so both are kept as values.           *)
(***************************************************************************)

\* Number of dict objects a run may construct.
MaxDicts == 3

\* The usages passed to add() and held by scan results here.
HeapUsages ==
    { FileUsage({"toggle"}, {}, FALSE, {}), FileUsage({"add"}, {"if"}, TRUE, {"ja"}) }

\* The dicts passed to load_from_scan() here.
HeapScanResults == UNION { [P -> HeapUsages] : P \in SUBSET Paths }

\* The content of the dict self._file_usage refers to.
HeapTable == heap.dicts[heap.file_usage]

\* self._file_usage is changed in place, and the cache is dropped.
HeapStore(table) ==
    heap' = [heap EXCEPT !.dicts[heap.file_usage] = table, !.cached_usage = None]

\* A snapshot with the dict it refers to in place of the reference.
Deref(snapshot) == [snapshot EXCEPT !.file_usage = heap.dicts[@]]

\* get_usage recomputing with file_usage=self._file_usage in place of a copy.
heap_get_usage_without_copy ==
    /\ IF heap.cached_usage # None
       THEN /\ returned' = returned \cup
                    { [snapshot |-> heap.cached_usage,
                       seen |-> Deref(heap.cached_usage)] }
            /\ UNCHANGED heap
       ELSE LET computed == Recompute(HeapTable, 0)
                snapshot == [computed EXCEPT !.file_usage = heap.file_usage]
            IN  /\ heap' = [heap EXCEPT !.cached_usage = snapshot]
                /\ returned' = returned \cup
                       { [snapshot |-> snapshot, seen |-> computed] }
    /\ AggregatorIdle
    /\ UNCHANGED <<fn, scanner, files, behaviors, calls>>
    /\ ClientIdle
    /\ ThreadsIdle

\* Only the objects move.
HeapOnly ==
    /\ AggregatorIdle
    /\ UNCHANGED <<fn, scanner, files, behaviors, calls>>
    /\ ClientIdle
    /\ ThreadsIdle

\* Aggregator.add
heap_add(file_path, usage) ==
    LET existing == DictGet(HeapTable, file_path)
    IN  /\ IF /\ existing # None
              /\ FileUsageBool(existing)
              /\ existing.commands = usage.commands
              /\ existing.blocks = usage.blocks
              /\ existing.positional = usage.positional
           THEN UNCHANGED heap
           ELSE HeapStore(DictSet(HeapTable, file_path, usage))
        /\ UNCHANGED returned
        /\ HeapOnly

\* Aggregator.remove
heap_remove(file_path) ==
    /\ IF file_path \in DOMAIN HeapTable
       THEN HeapStore(DictDel(HeapTable, file_path))
       ELSE UNCHANGED heap
    /\ UNCHANGED returned
    /\ HeapOnly

\* Aggregator.get_usage: the cached snapshot, or a new one holding a new dict
\* that is a copy of self._file_usage.
heap_get_usage ==
    /\ IF heap.cached_usage # None
       THEN /\ returned' = returned \cup
                    { [snapshot |-> heap.cached_usage,
                       seen |-> Deref(heap.cached_usage)] }
            /\ UNCHANGED heap
       ELSE /\ Len(heap.dicts) < MaxDicts
            /\ LET computed == Recompute(HeapTable, 0)
                   copy == Len(heap.dicts) + 1
                   snapshot == [computed EXCEPT !.file_usage = copy]
               IN  /\ heap' = [heap EXCEPT
                                   !.dicts = Append(@, computed.file_usage),
                                   !.cached_usage = snapshot]
                   /\ returned' = returned \cup
                          { [snapshot |-> snapshot, seen |-> computed] }
    /\ HeapOnly

\* Aggregator.load_from_scan: self._file_usage becomes a new dict.
heap_load_from_scan(scanned_files) ==
    /\ Len(heap.dicts) < MaxDicts
    /\ heap' = [heap EXCEPT !.dicts = Append(@, scanned_files),
                            !.file_usage = Len(heap.dicts) + 1,
                            !.cached_usage = None]
    /\ UNCHANGED returned
    /\ HeapOnly

\* Aggregator.clear: self._file_usage.clear(), in place.
heap_clear ==
    /\ HeapStore(EmptyDict)
    /\ UNCHANGED returned
    /\ HeapOnly

\* Aggregator() as objects.
InitHeap ==
    /\ AggregatorFresh
    /\ ScannerFresh
    /\ RegistryFresh
    /\ ClientFresh
    /\ HeapFresh
    /\ ThreadsFresh
    /\ fn = [name |-> "none"]

NextHeap ==
    \/ \E file_path \in Paths, usage \in HeapUsages : heap_add(file_path, usage)
    \/ \E file_path \in Paths : heap_remove(file_path)
    \/ heap_get_usage
    \/ \E scanned_files \in HeapScanResults : heap_load_from_scan(scanned_files)
    \/ heap_clear

HeapSpec == InitHeap /\ [][NextHeap]_vars

(***************************************************************************)
(* get_usage in several threads, mutations one at a time (aggregator.py)   *)
(*                                                                         *)
(* A step is one read or write of self._file_usage or self._cached_usage.  *)
(* At most one mutation method runs at a time; get_usage calls take their  *)
(* steps between and inside the mutations.  Iteration over a dict that     *)
(* changed size raises RuntimeError; an iterator refers to the dict object *)
(* it was made from, which load_from_scan replaces and the other methods   *)
(* change in place.                                                        *)
(***************************************************************************)

\* Only the aggregator's table, its cache and the threads move.
ThreadsOnly ==
    /\ UNCHANGED <<next_id, call, ret, pre, last_snapshot, mutated>>
    /\ UNCHANGED <<fn, scanner, files, behaviors, calls>>
    /\ ClientIdle
    /\ HeapIdle

\* The usages passed to add() and held by scan results here.
ThreadUsages == { FileUsage({"toggle"}, {"if"}, TRUE, {"ja"}) }

\* The dicts passed to load_from_scan() here.
ThreadScanResults == UNION { [P -> ThreadUsages] : P \in SUBSET Paths }

\* add, lines 59-70: the comparison with the existing entry and the store.
add_store(file_path, usage) ==
    /\ writer.pc = "idle"
    /\ LET existing == DictGet(file_usage, file_path)
       IN  IF /\ existing # None
              /\ FileUsageBool(existing)
              /\ existing.commands = usage.commands
              /\ existing.blocks = usage.blocks
              /\ existing.positional = usage.positional
           THEN UNCHANGED <<file_usage, writer>>
           ELSE /\ file_usage' = DictSet(file_usage, file_path, usage)
                /\ writer' = [pc |-> "invalidate"]
    /\ UNCHANGED <<cached_usage, reader>>
    /\ ThreadsOnly

\* remove, lines 84-85.
remove_delete(file_path) ==
    /\ writer.pc = "idle"
    /\ IF file_path \in DOMAIN file_usage
       THEN /\ file_usage' = DictDel(file_usage, file_path)
            /\ writer' = [pc |-> "invalidate"]
       ELSE UNCHANGED <<file_usage, writer>>
    /\ UNCHANGED <<cached_usage, reader>>
    /\ ThreadsOnly

\* load_from_scan, line 133: self._file_usage becomes another dict; the
\* iterators made from the old one keep it.
load_from_scan_rebind(scanned_files) ==
    /\ writer.pc = "idle"
    /\ file_usage' = scanned_files
    /\ reader' = [t \in Threads |->
                     IF reader[t].pc = "loop" /\ reader[t].live
                     THEN [reader[t] EXCEPT !.live = FALSE, !.dict = file_usage]
                     ELSE reader[t]]
    /\ writer' = [pc |-> "invalidate"]
    /\ UNCHANGED cached_usage
    /\ ThreadsOnly

\* clear, line 164.
clear_in_place ==
    /\ writer.pc = "idle"
    /\ file_usage' = EmptyDict
    /\ writer' = [pc |-> "invalidate"]
    /\ UNCHANGED <<cached_usage, reader>>
    /\ ThreadsOnly

\* self._cached_usage = None, the last statement of each mutation method.
invalidate_cache ==
    /\ writer.pc = "invalidate"
    /\ cached_usage' = None
    /\ writer' = [pc |-> "idle"]
    /\ UNCHANGED <<file_usage, reader>>
    /\ ThreadsOnly

\* get_usage, line 99: the test of the cache.
get_usage_test(t) ==
    /\ reader[t].pc = "idle"
    /\ reader' = [reader EXCEPT ![t].pc =
                      IF cached_usage # None THEN "return" ELSE "iter"]
    /\ UNCHANGED <<file_usage, cached_usage, writer>>
    /\ ThreadsOnly

\* get_usage, line 107: the iterator over self._file_usage.values().
get_usage_iter(t) ==
    /\ reader[t].pc = "iter"
    /\ reader' = [reader EXCEPT ![t].pc = "loop",
                                ![t].size = Cardinality(DOMAIN file_usage)]
    /\ UNCHANGED <<file_usage, cached_usage, writer>>
    /\ ThreadsOnly

\* get_usage, lines 107-112: one turn of the loop.
get_usage_next(t) ==
    /\ reader[t].pc = "loop"
    /\ LET d == IF reader[t].live THEN file_usage ELSE reader[t].dict
           rest == DOMAIN d \ reader[t].visited
       IN  IF Cardinality(DOMAIN d) # reader[t].size
           THEN reader' = [reader EXCEPT ![t] = Resting]
           ELSE IF rest = {}
           THEN reader' = [reader EXCEPT ![t].pc = "copy", ![t].live = TRUE,
                                         ![t].dict = EmptyDict, ![t].size = 0,
                                         ![t].visited = {}]
           ELSE \E file_path \in rest :
                    LET usage == d[file_path]
                        acc == reader[t].acc
                    IN  reader' = [reader EXCEPT
                            ![t].visited = @ \cup {file_path},
                            ![t].acc =
                                [commands |-> acc.commands \cup usage.commands,
                                 blocks |-> acc.blocks \cup usage.blocks,
                                 positional |-> acc.positional \/ usage.positional,
                                 detected_languages |->
                                     acc.detected_languages
                                         \cup usage.detected_languages]]
    /\ UNCHANGED <<file_usage, cached_usage, writer>>
    /\ ThreadsOnly

\* get_usage, line 118: dict(self._file_usage).
get_usage_copy(t) ==
    /\ reader[t].pc = "copy"
    /\ reader' = [reader EXCEPT ![t].pc = "assign", ![t].copy = file_usage]
    /\ UNCHANGED <<file_usage, cached_usage, writer>>
    /\ ThreadsOnly

\* get_usage, line 114: self._cached_usage = AggregatedUsage(...).
get_usage_assign(t) ==
    /\ reader[t].pc = "assign"
    /\ cached_usage' = [id |-> 1,
                        commands |-> reader[t].acc.commands,
                        blocks |-> reader[t].acc.blocks,
                        positional |-> reader[t].acc.positional,
                        file_usage |-> reader[t].copy,
                        detected_languages |-> reader[t].acc.detected_languages]
    /\ reader' = [reader EXCEPT ![t] = [Resting EXCEPT !.pc = "return"]]
    /\ UNCHANGED <<file_usage, writer>>
    /\ ThreadsOnly

\* get_usage, lines 100 and 122: return self._cached_usage.
get_usage_return(t) ==
    /\ reader[t].pc = "return"
    /\ reader' = [reader EXCEPT ![t].pc = "idle"]
    /\ UNCHANGED <<file_usage, cached_usage, writer>>
    /\ ThreadsOnly

\* Aggregator() and no call in progress.
InitThreads ==
    /\ AggregatorFresh
    /\ ScannerFresh
    /\ RegistryFresh
    /\ ClientFresh
    /\ HeapFresh
    /\ ThreadsFresh
    /\ fn = [name |-> "none"]

NextThreads ==
    \/ \E file_path \in Paths, usage \in ThreadUsages : add_store(file_path, usage)
    \/ \E file_path \in Paths : remove_delete(file_path)
    \/ \E scanned_files \in ThreadScanResults : load_from_scan_rebind(scanned_files)
    \/ clear_in_place
    \/ invalidate_cache
    \/ \E t \in Threads : get_usage_test(t)
    \/ \E t \in Threads : get_usage_iter(t)
    \/ \E t \in Threads : get_usage_next(t)
    \/ \E t \in Threads : get_usage_copy(t)
    \/ \E t \in Threads : get_usage_assign(t)
    \/ \E t \in Threads : get_usage_return(t)

ThreadsSpec == InitThreads /\ [][NextThreads]_vars

(***************************************************************************)
(* Properties                                                              *)
(***************************************************************************)

\* The three fields add() compares.
SameComparedFields(u, v) ==
    /\ u.commands = v.commands
    /\ u.blocks = v.blocks
    /\ u.positional = v.positional

\* seq lists the elements of S in increasing str order, each once.
IsSortedFormOf(seq, S) ==
    /\ Len(seq) = Cardinality(S)
    /\ { seq[i] : i \in 1..Len(seq) } = S
    /\ \A i \in 1..Len(seq) : \A j \in 1..Len(seq) :
           i < j => Rank(seq[i]) < Rank(seq[j])

\* C1: in every reachable state the cache is absent, or equal in commands,
\* blocks, positional, detected_languages and file_usage to what recomputation
\* from the current file table yields.
C1_CacheIsMemo ==
    cached_usage # None =>
        Content(cached_usage) = Content(Recompute(file_usage, 0))

\* C1 witness: a snapshot was recomputed over a non-empty table after an
\* earlier snapshot had been invalidated, and is now cached.
C1_Witness ==
    /\ call.name = "get_usage"
    /\ pre.cached_usage = None
    /\ cached_usage # None
    /\ next_id >= 2
    /\ DOMAIN file_usage # {}

\* C2: a get_usage() call with no mutating call since the previous get_usage()
\* call returns the identical object; one made after a mutating call (add or
\* remove returning True, load_from_scan, clear) returns a distinct object.
C2_SnapshotIdentity ==
    (call.name = "get_usage" /\ pre.last_snapshot # 0) =>
        IF pre.mutated THEN ret.id # pre.last_snapshot
        ELSE ret.id = pre.last_snapshot

\* C2 witness: get_usage() after a mutating call that left the table as the
\* previous snapshot saw it, returning a new object.
C2_Witness ==
    /\ call.name = "get_usage"
    /\ pre.last_snapshot # 0
    /\ pre.mutated
    /\ ret.id # pre.last_snapshot
    /\ pre.cached_usage = None
    /\ DOMAIN file_usage = {}

\* C3: add(p, u) on an aggregator that does not track p, immediately followed
\* by add(p, u) with the same u, returns True and then False, for every u.
C3_AddTwice ==
    [][ ( /\ call.name = "add"
          /\ call.file_path \notin DOMAIN pre.file_usage
          /\ call'.name = "add"
          /\ call'.file_path = call.file_path
          /\ call'.usage = call.usage )
        => (ret = TRUE /\ ret' = FALSE) ]_vars

\* C4: add(p, u) returns True if and only if p is not tracked or u differs
\* from the stored usage in commands, blocks or positional.
C4_AddReturn ==
    call.name = "add" =>
        ( ret = TRUE <=>
            \/ call.file_path \notin DOMAIN pre.file_usage
            \/ ~SameComparedFields(pre.file_usage[call.file_path], call.usage) )

\* C5: after add(p, u) returns, True or False, the usage tracked for p is u,
\* the cache is invalidated and the next get_usage() has file_usage[p] = u and
\* the union of all tracked detected languages.
C5_AddStores ==
    call.name = "add" =>
        /\ call.file_path \in DOMAIN file_usage
        /\ file_usage[call.file_path] = call.usage
        /\ cached_usage = None
        /\ GetUsageValue.file_usage[call.file_path] = call.usage
        /\ call.usage.detected_languages \subseteq GetUsageValue.detected_languages

\* C6: get_usage() returns the unions of commands, blocks and detected
\* languages over the tracked files, the OR of their positional flags, and a
\* file_usage with exactly the tracked paths, each mapped to its usage.
C6_GetUsageAggregates ==
    call.name = "get_usage" =>
        /\ ret.commands = UNION { file_usage[p].commands : p \in DOMAIN file_usage }
        /\ ret.blocks = UNION { file_usage[p].blocks : p \in DOMAIN file_usage }
        /\ ret.detected_languages =
               UNION { file_usage[p].detected_languages : p \in DOMAIN file_usage }
        /\ ret.positional = (\E p \in DOMAIN file_usage : file_usage[p].positional)
        /\ DOMAIN ret.file_usage = DOMAIN file_usage
        /\ \A p \in DOMAIN file_usage : ret.file_usage[p] = file_usage[p]

\* C6 witness: get_usage() over two tracked files whose commands and detected
\* languages both contribute to the unions.
C6_Witness ==
    /\ call.name = "get_usage"
    /\ Cardinality(DOMAIN file_usage) = 2
    /\ Cardinality(ret.commands) = 3
    /\ ret.detected_languages = {"es"}
    /\ next_id >= 2

\* C7: remove(p) returns True iff p was tracked; then exactly p's entry is
\* deleted, the cache is invalidated and the next get_usage() aggregates the
\* remaining files; when it returns False the table and the cache are unchanged.
C7_Remove ==
    call.name = "remove" =>
        LET p == call.file_path
            rest == DOMAIN pre.file_usage \ {p}
        IN  /\ ret = TRUE <=> p \in DOMAIN pre.file_usage
            /\ ret = TRUE =>
                   /\ DOMAIN file_usage = rest
                   /\ \A q \in rest : file_usage[q] = pre.file_usage[q]
                   /\ cached_usage = None
                   /\ DOMAIN GetUsageValue.file_usage = rest
                   /\ GetUsageValue.commands =
                          UNION { pre.file_usage[q].commands : q \in rest }
                   /\ GetUsageValue.detected_languages =
                          UNION { pre.file_usage[q].detected_languages : q \in rest }
            /\ ret = FALSE =>
                   /\ file_usage = pre.file_usage
                   /\ cached_usage = pre.cached_usage

\* C7 witness: a tracked path removed while another stays and a snapshot was cached.
C7_Witness ==
    /\ call.name = "remove"
    /\ ret = TRUE
    /\ pre.cached_usage # None
    /\ Cardinality(DOMAIN file_usage) = 1

\* C8: after load_from_scan(m) the table is exactly m and the cache is absent.
C8_LoadFromScan ==
    call.name = "load_from_scan" =>
        /\ file_usage = call.scanned_files
        /\ cached_usage = None

\* C8 witness: load_from_scan(m) that drops a tracked path, with a snapshot cached.
C8_Witness ==
    /\ call.name = "load_from_scan"
    /\ pre.cached_usage # None
    /\ DOMAIN call.scanned_files # {}
    /\ DOMAIN pre.file_usage \ DOMAIN call.scanned_files # {}

\* C9: has_usage() is True iff some tracked file has a command, a block or
\* the positional flag; detected languages alone never make it True.
C9_HasUsage ==
    call.name = "has_usage" =>
        ( ret = TRUE <=>
            \E p \in DOMAIN file_usage :
                \/ file_usage[p].commands # {}
                \/ file_usage[p].blocks # {}
                \/ file_usage[p].positional )

\* C9 witness: has_usage() is False with a tracked file that has a detected language.
C9_Witness ==
    /\ call.name = "has_usage"
    /\ ret = FALSE
    /\ \E p \in DOMAIN file_usage : file_usage[p].detected_languages # {}

\* C10: get_summary()'s lists are the sorted, duplicate-free forms of the sets
\* of get_usage(), its positional is get_usage()'s, and its file_count is the
\* number of tracked files, the size of get_usage().file_usage.
C10_Summary ==
    call.name = "get_summary" =>
        /\ IsSortedFormOf(ret.commands, GetUsageValue.commands)
        /\ IsSortedFormOf(ret.blocks, GetUsageValue.blocks)
        /\ IsSortedFormOf(ret.detected_languages, GetUsageValue.detected_languages)
        /\ ret.positional = GetUsageValue.positional
        /\ ret.file_count = Cardinality(DOMAIN file_usage)
        /\ ret.file_count = Cardinality(DOMAIN GetUsageValue.file_usage)

\* C10 witness: a summary of two files with three commands.
C10_Witness ==
    /\ call.name = "get_summary"
    /\ Len(ret.commands) = 3
    /\ ret.file_count = 2

\* The languages of a region, as a set.
RegionLanguages(region) == { REGIONS[region][i] : i \in DOMAIN REGIONS[region] }

\* The order in which the claims list the regions tested before 'all'.
LiteralOrder ==
    << "east-asian", "south-asian", "slavic", "southeast-asian", "western",
       "priority" >>

\* The positions of LiteralOrder whose region holds every language of L.
Covering(L) ==
    { i \in DOMAIN LiteralOrder : L \subseteq RegionLanguages(LiteralOrder[i]) }

\* A bundle was selected for a non-empty language set.
Selected == fn.name = "get_optimal_region" /\ fn.languages # {}

\* C11 (as claimed): the region selected for S1 is a subset of the region
\* selected for S1 | S2.
C11_Monotone ==
    Selected =>
        RegionLanguages(fn.region) \subseteq RegionLanguages(fn.region_more)

\* C11 (amended): the region selected for S1 is a subset of the region
\* selected for S1 | S2 unless the former is southeast-asian and the latter is
\* priority; in every case the latter has at least as many languages.
C11_MonotoneAmended ==
    Selected =>
        /\ \/ RegionLanguages(fn.region) \subseteq RegionLanguages(fn.region_more)
           \/ fn.region = "southeast-asian" /\ fn.region_more = "priority"
        /\ Cardinality(RegionLanguages(fn.region))
               <= Cardinality(RegionLanguages(fn.region_more))

\* C11 witness: joining a further language moves the selection from a small
\* region to a larger one.
C11_Witness ==
    /\ Selected
    /\ fn.more # {}
    /\ fn.region = "western"
    /\ fn.region_more = "priority"

\* C12: the selected region holds every language of L, and no region with
\* fewer languages does.
C12_SmallestCover ==
    Selected =>
        /\ fn.languages \subseteq RegionLanguages(fn.region)
        /\ \A r \in DOMAIN REGIONS :
               fn.languages \subseteq RegionLanguages(r) =>
                   Cardinality(RegionLanguages(fn.region))
                       <= Cardinality(RegionLanguages(r))

\* C12 witness: a set that only priority and all cover.
C12_Witness ==
    /\ Selected
    /\ Cardinality(fn.languages) = 2
    /\ fn.region = "priority"

\* C13: the selected region is the first of east-asian, south-asian, slavic,
\* southeast-asian, western, priority that holds every language of L, and
\* 'all' when none does.
C13_FirstInOrder ==
    Selected =>
        LET covering == Covering(fn.languages)
        IN  IF covering = {} THEN fn.region = "all"
            ELSE LET first == CHOOSE i \in covering : \A j \in covering : i <= j
                 IN  fn.region = LiteralOrder[first]

\* C13 witness: a set spanning two small regions whose languages are all in priority.
C13_Witness ==
    /\ Selected
    /\ \A i \in Covering(fn.languages) : LiteralOrder[i] = "priority"
    /\ fn.region = "priority"

\* C14: the selection is absent iff the language set is empty; otherwise it
\* is one of the seven region names.
C14_NoneIffEmpty ==
    fn.name = "get_optimal_region" =>
        /\ fn.region = NoRegion <=> fn.languages = {}
        /\ fn.languages # {} => fn.region \in DOMAIN REGIONS

\* C14 witness: the selection for the empty set.
C14_Witness ==
    /\ fn.name = "get_optimal_region"
    /\ fn.languages = {}
    /\ fn.region = NoRegion

\* C15: merge is the field-wise union of commands, blocks and detected
\* languages and the OR of positional; it is commutative and associative, and
\* it leaves the merged-in usage unchanged.
C15_Merge ==
    fn.name = "merge" =>
        /\ fn.a_b.commands = fn.a.commands \cup fn.b.commands
        /\ fn.a_b.blocks = fn.a.blocks \cup fn.b.blocks
        /\ fn.a_b.detected_languages =
               fn.a.detected_languages \cup fn.b.detected_languages
        /\ fn.a_b.positional = (fn.a.positional \/ fn.b.positional)
        /\ fn.a_b = fn.b_a
        /\ fn.ab_c = fn.a_bc
        /\ fn.b_after = fn.b

\* C15 witness: a positional usage merged with one that is not, with
\* different commands, and a third that adds a language.
C15_Witness ==
    /\ fn.name = "merge"
    /\ fn.a.positional /\ ~fn.b.positional
    /\ fn.a.commands = {"toggle"} /\ fn.b.commands = {"add"}
    /\ fn.c.detected_languages = {"ja"} /\ fn.a.detected_languages = {}
    /\ fn.ab_c.detected_languages = {"ja"}

\* C16: a FileUsage is falsy iff commands, blocks and detected languages are
\* all empty and positional is false.
C16_EmptyIffFalsy ==
    fn.name = "__bool__" =>
        ( fn.result = FALSE <=>
            /\ fn.usage.commands = {}
            /\ fn.usage.blocks = {}
            /\ fn.usage.detected_languages = {}
            /\ fn.usage.positional = FALSE )

\* The codes of SUPPORTED_LANGUAGES, as a set.
SupportedCodes == { SUPPORTED_LANGUAGES[i] : i \in DOMAIN SUPPORTED_LANGUAGES }

\* C18: the detected languages of a script never contain the base language
\* 'en' and are codes of supported languages, in detect_languages' result and
\* in the FileUsage analyze_script builds from it.
C18_NoBaseLanguage ==
    /\ fn.name = "detect_languages" =>
           "en" \notin fn.detected /\ fn.detected \subseteq SupportedCodes
    /\ fn.name = "analyze_script" =>
           /\ "en" \notin fn.usage.detected_languages
           /\ fn.usage.detected_languages \subseteq SupportedCodes

\* C18 witness: a script with an upper-case Spanish and a Japanese keyword.
C18_Witness ==
    /\ fn.name = "analyze_script"
    /\ Contains(fn.script, "ALTERNAR")
    /\ fn.usage.detected_languages = {"ja", "es"}

\* A usage with any command, block, positional flag or detected language.
NonEmpty(usage) ==
    \/ usage.commands # {}
    \/ usage.blocks # {}
    \/ usage.positional
    \/ usage.detected_languages # {}

\* C17: scan_directory(root) has an entry for a file under root iff the file
\* passes should_scan and its scanned usage has any command, block, positional
\* flag or detected language; the entry is that usage.
C17_ScanDirectoryEntries ==
    fn.name = "scan_directory" =>
        /\ \A path \in DOMAIN fn.results :
               path \in rglob(fn.directory) /\ is_file(path)
        /\ \A path \in rglob(fn.directory) :
               is_file(path) =>
                   /\ (path \in DOMAIN fn.results) <=>
                          (should_scan(path) /\ NonEmpty(scan_file(path)))
                   /\ (path \in DOMAIN fn.results) =>
                          fn.results[path] = scan_file(path)

\* The configured value of an argument: the default when it was not passed.
Configured(argument, default) ==
    IF argument = None THEN default ELSE argument.value

\* C19: for every configuration, an empty set or list included, should_scan
\* is true iff the extension of the path is in the configured include-set and
\* no configured exclude string occurs in the path.
C19_ShouldScan ==
    fn.name = "should_scan" =>
        LET include == Configured(fn.include_extensions, DefaultIncludeExtensions)
            exclude == Configured(fn.exclude_patterns, DefaultExcludePatterns)
        IN  fn.result <=>
                /\ SuffixLower(suffix(fn.path)) \in include
                /\ \A i \in DOMAIN exclude : ~OccursIn(exclude[i], fn.path)

\* C20: scan_directories(roots) has the paths of scan_directory over the
\* roots, each with the entry of the last root that produced it, and no file
\* appears under two paths.
C20_ScanDirectories ==
    fn.name = "scan_directories" =>
        LET roots == fn.directories
            produced(path) == { i \in DOMAIN roots :
                                  path \in DOMAIN scan_directory(roots[i]) }
        IN  /\ DOMAIN fn.results =
                   UNION { DOMAIN scan_directory(roots[i]) : i \in DOMAIN roots }
            /\ \A path \in DOMAIN fn.results :
                   LET last == CHOOSE i \in produced(path) :
                                   \A j \in produced(path) : j <= i
                   IN  fn.results[path] = scan_directory(roots[last])[path]
            /\ \A p \in DOMAIN fn.results : \A q \in DOMAIN fn.results :
                   Resolve(p) = Resolve(q) => p = q

\* The form of each extraction pattern, in the claim's words.
PatternGroup(pattern) ==
    CASE pattern \in { "attr_double", "attr_single", "attr_backtick",
                       "data_hs_double", "data_hs_single" } -> 1
      [] pattern \in { "jsx_template", "jsx_quoted" } -> 2
      [] pattern = "django_block" -> 3
      [] pattern \in { "hs_attr_double", "hs_attr_single" } -> 4
      [] pattern \in { "hs_script_double", "hs_script_single" } -> 5
      [] pattern = "script_tag" -> 6

\* The place of each pattern in the list the source applies.
PatternRank(pattern) ==
    CASE pattern = "attr_double" -> 1
      [] pattern = "attr_single" -> 2
      [] pattern = "attr_backtick" -> 3
      [] pattern = "jsx_template" -> 4
      [] pattern = "jsx_quoted" -> 5
      [] pattern = "data_hs_double" -> 6
      [] pattern = "data_hs_single" -> 7
      [] pattern = "django_block" -> 8
      [] pattern = "hs_attr_double" -> 9
      [] pattern = "hs_attr_single" -> 10
      [] pattern = "hs_script_double" -> 11
      [] pattern = "hs_script_single" -> 12
      [] pattern = "script_tag" -> 13

\* The result holds exactly the non-blank embedded scripts, stripped, each once.
ExtractsAll ==
    /\ Len(fn.scripts) = Len(fn.matches)
    /\ \A k \in DOMAIN fn.matches :
           /\ fn.content[fn.matches[k].position].form = fn.matches[k].pattern
           /\ fn.scripts[k] = strip(fn.content[fn.matches[k].position].script)
    /\ \A i \in DOMAIN fn.content :
           NotBlank(strip(fn.content[i].script)) <=>
               \E k \in DOMAIN fn.matches : fn.matches[k].position = i
    /\ \A k \in DOMAIN fn.matches : \A l \in DOMAIN fn.matches :
           fn.matches[k].position = fn.matches[l].position => k = l

\* C21: in the result of extract_hyperscript every quoted-attribute match
\* (under _ or data-hs) precedes every templated-expression match, which
\* precedes every block-directive match, then hs_attr, then hs_script, then
\* script-block matches; matches of one pattern are in order of occurrence.
C21_ExtractOrder ==
    fn.name = "extract_hyperscript" =>
        /\ ExtractsAll
        /\ \A k \in DOMAIN fn.matches : \A l \in DOMAIN fn.matches :
               k < l =>
                   /\ PatternGroup(fn.matches[k].pattern)
                          <= PatternGroup(fn.matches[l].pattern)
                   /\ fn.matches[k].pattern = fn.matches[l].pattern =>
                          fn.matches[k].position < fn.matches[l].position

\* C21 amended: the matches are in the order of the pattern list: the quoted
\* _ attributes (double, single, back-tick), the templated-expression forms,
\* the quoted data-hs attributes (double, single), the block directive,
\* hs_attr, hs_script, the script block; matches of one pattern are in order
\* of occurrence.
C21_ExtractOrderAmended ==
    fn.name = "extract_hyperscript" =>
        /\ ExtractsAll
        /\ \A k \in DOMAIN fn.matches : \A l \in DOMAIN fn.matches :
               k < l =>
                   /\ PatternRank(fn.matches[k].pattern)
                          <= PatternRank(fn.matches[l].pattern)
                   /\ fn.matches[k].pattern = fn.matches[l].pattern =>
                          fn.matches[k].position < fn.matches[l].position

\* C21 witness: a data-hs attribute ahead of a templated expression in the
\* text comes after it in the result.
C21_Witness ==
    /\ fn.name = "extract_hyperscript"
    /\ Len(fn.content) = 2
    /\ fn.content[1].form = "data_hs_double"
    /\ fn.content[2].form = "jsx_quoted"
    /\ Len(fn.scripts) = 2
    /\ fn.matches[1].position = 2

\* C22: scan_content(content) is the field-wise union, and the OR of the
\* positional flags, of analyze_script over the scripts extract_hyperscript
\* returns; when no pattern matches a non-blank script it is the FileUsage
\* with all fields empty, which is falsy.
C22_ScanContent ==
    fn.name = "scan_content" =>
        LET scripts == extract_hyperscript(fn.content)
            usages == { analyze_script(scripts[k]) : k \in DOMAIN scripts }
        IN  /\ fn.usage.commands = UNION { u.commands : u \in usages }
            /\ fn.usage.blocks = UNION { u.blocks : u \in usages }
            /\ fn.usage.detected_languages =
                   UNION { u.detected_languages : u \in usages }
            /\ fn.usage.positional = (\E u \in usages : u.positional)
            /\ (\A i \in DOMAIN fn.content : strip(fn.content[i].script) = << >>) =>
                   /\ fn.usage = FileUsage({}, {}, FALSE, {})
                   /\ ~FileUsageBool(fn.usage)

\* C22 witness: two scripts under different syntaxes, the later one found
\* first, each adding a command and one the positional flag.
C22_Witness ==
    /\ fn.name = "scan_content"
    /\ Len(fn.content) = 2
    /\ fn.content[1].form = "script_tag"
    /\ fn.content[2].form = "attr_double"
    /\ fn.usage.commands = {"add", "hide"}
    /\ fn.usage.positional

\* The file cannot be read: it is missing, or reading it fails.
Unreadable(path) ==
    \/ Resolve(path) \notin DOMAIN files
    \/ "error" \in DOMAIN files[Resolve(path)]

\* C23: scan_file on a file that cannot be read returns the empty FileUsage;
\* scan_directory on a root that does not exist returns the empty mapping;
\* and in scan_directory every readable file that passes should_scan and has
\* a truthy usage has its entry, whatever other files cannot be read.
C23_NeverRaises ==
    /\ fn.name = "scan_file" =>
           /\ DOMAIN fn.usage = DOMAIN FileUsage({}, {}, FALSE, {})
           /\ Unreadable(fn.path) => fn.usage = FileUsage({}, {}, FALSE, {})
    /\ fn.name = "scan_directory" =>
           /\ (\A f \in DOMAIN files : ~IsPrefix(Resolve(fn.directory), f)) =>
                  fn.results = EmptyDict
           /\ \A path \in rglob(fn.directory) :
                  ( /\ ~Unreadable(path)
                    /\ should_scan(path)
                    /\ FileUsageBool(scan_content(files[Resolve(path)].text)) )
                  => /\ path \in DOMAIN fn.results
                     /\ fn.results[path] = scan_content(files[Resolve(path)].text)

\* C23 witness: a scan of a directory with a file that cannot be read, which
\* passes should_scan, and another file whose entry is returned.
C23_Witness ==
    /\ fn.name = "scan_directory"
    /\ fn.directory = <<"templates">>
    /\ <<"templates", "page.html">> \in DOMAIN files
    /\ Unreadable(<<"templates", "page.html">>)
    /\ should_scan(<<"templates", "page.html">>)
    /\ <<"templates", "sub", "PAGE.HTML">> \in DOMAIN fn.results

RECURSIVE Latest(_, _)
Latest(log, n) ==
    IF Len(log) = 0 THEN None
    ELSE LET last == log[Len(log)]
             earlier == SubSeq(log, 1, Len(log) - 1)
         IN  IF last.op = "clear" THEN None
             ELSE IF last.name # n THEN Latest(earlier, n)
             ELSE IF last.op = "unregister" THEN None
             ELSE Behavior(last.name, last.script, last.description)

\* C25: after any register, unregister and clear calls get(n) returns the
\* behaviour of the most recent register(n, ...) not followed by unregister(n)
\* or clear, and None otherwise; the registry holds one behaviour per name;
\* unregister of a name not registered raises nothing and changes nothing.
C25_Registry ==
    /\ \A n \in BehaviorNames : DictGet(behaviors, n) = Latest(calls, n)
    /\ fn.name = "get" => fn.result = Latest(calls, fn.behavior)
    /\ \A n \in DOMAIN behaviors : behaviors[n].name = n
    /\ fn.name = "unregister" =>
           /\ ~fn.raised
           /\ fn.behavior \notin DOMAIN fn.before => behaviors = fn.before

\* C25 witness: get of a name registered twice, with another name registered
\* and unregistered in between, returns the second registration.
C25_Witness ==
    /\ fn.name = "get"
    /\ fn.behavior = "Removable"
    /\ fn.result # None
    /\ fn.result.script = "on click hide me"
    /\ Len(calls) = 4
    /\ calls[1].op = "register" /\ calls[1].name = "Removable"
    /\ calls[3].op = "unregister" /\ calls[3].name = "Toggleable"
    /\ calls[4].op = "register" /\ calls[4].name = "Removable"

\* C26: compile and batch_compile raise CompilationError, carrying the errors
\* list, whenever the response has a non-empty errors list, and raise
\* NetworkError when the request fails.
C26_CompileRaises ==
    compile.pc = "done" =>
        /\ ( /\ request.outcome.kind = "returned"
             /\ Len(request.outcome.value.errors) > 0 )
           => /\ compile.outcome.kind = "raised"
              /\ compile.outcome.exception = "CompilationError"
              /\ compile.outcome.errors = request.outcome.value.errors
        /\ request.outcome.kind = "raised"
           => /\ compile.outcome.kind = "raised"
              /\ IsInstance(compile.outcome.exception, "NetworkError")

\* A reply after which _request may send again.
Retryable(reply) == reply.status_code >= 500 \/ reply.exception # ""

\* What C30 says of every state of a _request call.
C30_Bounded ==
    request.pc # "idle" =>
        /\ request.sent <= client.retries + 1
        /\ Len(request.replies) \in { request.sent - 1, request.sent }
        /\ \A i \in DOMAIN request.replies :
               i < request.sent => Retryable(request.replies[i])
        /\ \A i \in DOMAIN request.replies :
               request.replies[i].status_code \in { 400, 401, 429 } =>
                   /\ i = request.sent
                   /\ request.pc = "done"
                   /\ request.outcome.kind = "raised"
        /\ request.pc = "done" =>
               \/ request.outcome.kind = "raised"
               \/ /\ request.outcome.kind = "returned"
                  /\ request.outcome.value = request.replies[Len(request.replies)]
                  /\ request.outcome.value.status_code = 200

\* C30: for every retries >= 0 a _request call ends, after at most
\* retries + 1 requests, by returning the body of a 200 response or by
\* raising; it sends again only after a 5xx response, a timeout or a transport
\* error, and a 400, 401 or 429 response ends it with an error at once.
C30_RequestTerminates == []C30_Bounded /\ <>(request.pc = "done")

\* C30 witness: every attempt of a client with two retries was used, the last
\* answer a 503, and the call raised.
C30_Witness ==
    /\ request.pc = "done"
    /\ client.retries = 2
    /\ request.sent = 3
    /\ request.replies[1].exception = "TimeoutException"
    /\ request.replies[3].status_code = 503
    /\ request.outcome.exception = "ServiceUnavailableError"

\* The five small regions.
SmallRegions == { "east-asian", "south-asian", "slavic", "southeast-asian", "western" }

\* C29: the five small regions are pairwise disjoint, so at most one of them
\* holds every language of a non-empty set, and whichever of the five is
\* tested first the selection is the same: a small region that holds the set
\* is the region selected.
C29_SmallRegionsDisjoint ==
    /\ \A r \in SmallRegions : \A q \in SmallRegions :
           r # q => RegionLanguages(r) \cap RegionLanguages(q) = {}
    /\ Selected =>
           /\ Cardinality({ r \in SmallRegions :
                              fn.languages \subseteq RegionLanguages(r) }) <= 1
           /\ \A r \in SmallRegions :
                  fn.languages \subseteq RegionLanguages(r) => fn.region = r

\* C29 witness: two languages of the region tested fourth, which is selected.
C29_Witness ==
    /\ Selected
    /\ fn.languages = {"vi", "th"}
    /\ fn.region = "southeast-asian"

\* C27: every snapshot get_usage returned still has the commands, blocks,
\* positional flag, detected languages and file_usage keys and entries it had
\* when it was returned, whatever add, remove, load_from_scan and clear calls
\* followed.
C27_SnapshotIsValue ==
    \A r \in returned : Deref(r.snapshot) = r.seen

\* C27 witness: a snapshot of two files was returned, then the table was
\* emptied in place, and another snapshot was returned.
C27_Witness ==
    /\ \E r \in returned : Cardinality(DOMAIN r.seen.file_usage) = 2
    /\ \E r \in returned : r.seen.file_usage = EmptyDict /\ r.snapshot.file_usage > 2
    /\ DOMAIN HeapTable = {}
    /\ heap.file_usage = 1

\* No mutation method and no get_usage call is in progress.
Quiescent ==
    /\ writer.pc = "idle"
    /\ \A t \in Threads : reader[t].pc = "idle"

\* C28: with the mutation methods run one at a time and get_usage calls of
\* other threads taking their steps in between, whenever every call has
\* ended the cache is absent or equal to the recomputation of the table.
C28_SerializedMutationsSuffice ==
    Quiescent /\ cached_usage # None
        => Content(cached_usage) = Content(Recompute(file_usage, 1))

====
